---- MODULE Spec2Model ----
(***************************************************************************)
(* VPCInstanceCreator (src/vpc/custom_vpc.py) and RDSManager               *)
(* (src/rds/custom_rds.py) as a sequential state machine.  One step of the *)
(* machine is one provider call (a boto3 client method or a waiter) made   *)
(* by the running operation; the provider's resources are the state the    *)
(* calls read and change.  An exception raised by a call goes to the       *)
(* except clause that encloses the call in the source.                     *)
(***************************************************************************)
EXTENDS Integers, Sequences, FiniteSets, TLC

VARIABLES
    ec2,        \* resources behind self.ec2_client
    rds,        \* resources behind self.rds_client
    nextId,     \* next identifier the provider hands out
    vpcCreated, \* number of create_vpc calls answered so far
    faults,     \* number of provider errors that no resource state explains
    pc,         \* the call the running operation is about to make
    op,         \* the running top-level operation and its arguments
    fr,         \* local variables of the active methods
    log,        \* provider calls issued by the running operation, in order
    result,     \* how the operation ended: return value or exception
    pre,        \* the provider's resources when the operation started
    built,      \* per identifier, what the last successful
                \* create_complete_infrastructure made
    now,        \* time.time(), in seconds
    pg          \* the PostgreSQL database behind psycopg2: tables and rows

vars ==
    <<ec2, rds, nextId, vpcCreated, faults, pc, op, fr, log, result, pre, built, now, pg>>

\* ---------------------------------------------------------------- bounds
MaxVpc == 1
MaxWaitMinutes == 2     \* largest max_wait_minutes passed to wait_for_rds_available
MaxStartTime == 60      \* latest time at which a wait is started
MaxCategoryRows == 6    \* rows of categories beyond which no sample data is inserted
MaxFaults == 1
MaxAZ == 3

Ids == {"a", "b"}       \* instance identifiers passed to the operations
DbIds == {"db"}         \* db_instance_identifier values
ToolTag == "VPCInstanceCreator"
VpcCidr == "10.0.0.0/16"
\* values of create_vpc's cidr_block argument
CidrBlocks == {VpcCidr, "192.168.0.0/16"}
DefaultVpc == 1         \* the account's default VPC and what it holds
DefaultSubnet == DefaultVpc + 1
DefaultIgw == DefaultVpc + 2
DefaultRtb == DefaultVpc + 3
DefaultSg == DefaultVpc + 4
FirstFreeId == DefaultVpc + 5

\* ---------------------------------------------------------------- helpers
Put(f, k, v) == [x \in DOMAIN f \cup {k} |-> IF x = k THEN v ELSE f[x]]
Drop(f, K) == [x \in DOMAIN f \ K |-> f[x]]
Range(s) == {s[i] : i \in 1..Len(s)}

RECURSIVE SetToSeq(_)
SetToSeq(S) ==
    IF S = {} THEN <<>>
    ELSE LET m == CHOOSE x \in S : \A y \in S : x <= y
         IN <<m>> \o SetToSeq(S \ {m})

\* ---------------------------------------------------------------- provider: reads
SubnetsIn(e, v) == {s \in DOMAIN e.subnets : e.subnets[s].vpc = v}
RtbsIn(e, v) == {r \in DOMAIN e.rtbs : e.rtbs[r].vpc = v}
IgwsOf(e, v) == {g \in DOMAIN e.igws : e.igws[g].vpc = v}
SgsIn(e, v) == {g \in DOMAIN e.sgs : e.sgs[g].vpc = v}
NatsIn(e, v) == {n \in DOMAIN e.nats : e.nats[n].vpc = v}
LiveNats(e) == {n \in DOMAIN e.nats : e.nats[n].state \notin {"deleted"}}
TaggedVpcs(e, id) ==
    {v \in DOMAIN e.vpcs : e.vpcs[v].project = id /\ e.vpcs[v].createdBy = ToolTag}
\* network interfaces of database instances
DbSubnets(r) == {r.dbis[d].subnet : d \in DOMAIN r.dbis}
DbSgs(r) == {r.dbis[d].sg : d \in DOMAIN r.dbis}
DbGroups(r) == {r.dbis[d].sng : d \in DOMAIN r.dbis}

\* ---------------------------------------------------------------- frames
Fr0 ==
    [ \* create_complete_infrastructure and the create_* methods
      vpc_id |-> 0, azs |-> <<>>, i |-> 1, kind |-> "public", subnet_id |-> 0,
      public_subnet_ids |-> <<>>, private_subnet_ids |-> <<>>, igw_id |-> 0,
      rt_id |-> 0, public_route_table_ids |-> <<>>, private_route_table_ids |-> <<>>,
      allocation_id |-> 0, nat_gateway_id |-> 0,
      security_group_id |-> 0, rds_subnet_group |-> "none",
      \* create_vpc
      cidr_block |-> VpcCidr,
      \* create_rds_subnet_group
      sng_name |-> "none", sng_subnets |-> <<>>, ret |-> "none",
      \* cleanup_existing_infrastructure
      phase |-> "none", vpcs |-> <<>>, vi |-> 1,
      \* cleanup_specific_vpc
      cvpc |-> 0, items |-> <<>>, k |-> 1, allocation_ids |-> <<>>, ai |-> 1,
      associations |-> <<>>, aj |-> 1, ninv |-> 0,
      \* get_vpc_infrastructure_info / create_complete_rds_setup
      has_info |-> FALSE, info_vpc |-> 0, info_subnets |-> <<>>, info_sg |-> 0,
      info_group_exists |-> FALSE ]

\* a fresh instance: database 'postgres' without tables
NoRows == [categories |-> 0, users |-> {}, products |-> {}]
EmptyDatabase == [tables |-> {}, indexes |-> {}, rows |-> NoRows]

NoResult == [status |-> "none", value |-> [none |-> TRUE]]
Raised(e) == [status |-> "raised", value |-> [error |-> e]]
Returned(v) == [status |-> "returned", value |-> v]

\* public subnets get 10.0.1.0/24, 10.0.3.0/24; private ones 10.0.2.0/24, 10.0.4.0/24
\* (the third octet stands for the block; i counts from 1 here, from 0 in the source)
SubnetCidr(i, kind) == IF kind = "public" THEN (i - 1) * 2 + 1 ELSE (i - 1) * 2 + 2
IsPrivateCidr(c) == c > 0 /\ c % 2 = 0

\* az_names[:2]
FirstTwo(s) == SubSeq(s, 1, IF Len(s) < 2 THEN Len(s) ELSE 2)
\* variant: return az_names, the slice forgotten
get_availability_zones_unsliced(az_names) == az_names
get_availability_zones(az_names) == FirstTwo(az_names)

\* ---------------------------------------------------------------- requests
\* The request each label sends: the method of the source that makes the call,
\* the provider API called, the resource identifiers the request names and the
\* subnet group name it names.
Req(fn, call, names, sname) == [fn |-> fn, call |-> call, names |-> names, sname |-> sname]

CurSubnet(f) ==
    IF f.kind = "public" THEN f.public_subnet_ids[f.i] ELSE f.private_subnet_ids[f.i]
\* variant: every route table, private ones included, is routed to the
\* internet gateway
RouteTargetIgwAlways(f) == [t |-> "igw", id |-> f.igw_id]
RouteTarget(f) ==
    IF f.kind = "public" THEN [t |-> "igw", id |-> f.igw_id]
    ELSE [t |-> "nat", id |-> f.nat_gateway_id]

CreateRequest(l, f) ==
    CASE l = "cv_create" -> Req("create_vpc", "create_vpc", {}, "none")
      [] l = "cv_wait" -> Req("create_vpc", "wait_vpc_available", {f.vpc_id}, "none")
      [] l = "cv_tags" -> Req("create_vpc", "create_tags", {f.vpc_id}, "none")
      [] l = "cv_dns1" -> Req("create_vpc", "modify_vpc_attribute", {f.vpc_id}, "none")
      [] l = "cv_dns2" -> Req("create_vpc", "modify_vpc_attribute", {f.vpc_id}, "none")
      [] l = "az_describe" ->
            Req("get_availability_zones", "describe_availability_zones", {}, "none")
      [] l = "sn_create" -> Req("create_subnet", "create_subnet", {f.vpc_id}, "none")
      [] l = "sn_wait" -> Req("create_subnet", "wait_subnet_available", {f.subnet_id}, "none")
      [] l = "sn_tags" -> Req("create_subnet", "create_tags", {f.subnet_id}, "none")
      [] l = "sn_type" ->
            Req("create_complete_infrastructure", "create_tags", {f.subnet_id}, "none")
      [] l = "igw_create" ->
            Req("create_internet_gateway", "create_internet_gateway", {}, "none")
      [] l = "igw_tags" -> Req("create_internet_gateway", "create_tags", {f.igw_id}, "none")
      [] l = "igw_attach" ->
            Req("create_internet_gateway", "attach_internet_gateway",
                {f.igw_id, f.vpc_id}, "none")
      [] l = "rt_create" -> Req("create_route_table", "create_route_table", {f.vpc_id}, "none")
      [] l = "rt_tags" -> Req("create_route_table", "create_tags", {f.rt_id}, "none")
      [] l = "rt_assoc" ->
            Req("create_route_table", "associate_route_table",
                {f.rt_id, CurSubnet(f)}, "none")
      [] l = "rt_route" ->
            Req("create_route", "create_route", {f.rt_id, RouteTarget(f).id}, "none")
      [] l = "nat_alloc" -> Req("create_nat_gateway", "allocate_address", {}, "none")
      [] l = "nat_eiptags" -> Req("create_nat_gateway", "create_tags", {f.allocation_id}, "none")
      [] l = "nat_create" ->
            Req("create_nat_gateway", "create_nat_gateway",
                {f.public_subnet_ids[1], f.allocation_id}, "none")
      [] l = "nat_wait" ->
            Req("create_nat_gateway", "wait_nat_gateway_available",
                {f.nat_gateway_id}, "none")
      [] l = "nat_tags" -> Req("create_nat_gateway", "create_tags", {f.nat_gateway_id}, "none")
      [] l = "sg_create" ->
            Req("create_rds_postgres_security_group", "create_security_group",
                {f.vpc_id}, "none")
      [] l = "sg_ingress" ->
            Req("create_rds_postgres_security_group", "authorize_security_group_ingress",
                {f.security_group_id}, "none")
      [] l = "sng_describe" ->
            Req("create_rds_subnet_group", "describe_db_subnet_groups", {}, f.sng_name)
      [] l = "sng_create" ->
            Req("create_rds_subnet_group", "create_db_subnet_group",
                Range(f.sng_subnets), f.sng_name)
      [] l = "sng_tags" ->
            Req("create_rds_subnet_group", "add_tags_to_resource", {}, f.sng_name)

CreateLabels ==
    {"cv_create", "cv_wait", "cv_tags", "cv_dns1", "cv_dns2", "az_describe",
     "sn_create", "sn_wait", "sn_tags", "sn_type", "igw_create", "igw_tags",
     "igw_attach", "rt_create", "rt_tags", "rt_assoc", "rt_route", "nat_alloc",
     "nat_eiptags", "nat_create", "nat_wait", "nat_tags", "sg_create",
     "sg_ingress", "sng_describe", "sng_create", "sng_tags"}

\* ---------------------------------------------------------------- provider: verdicts
\* What the provider answers to the request at label l when nothing but the
\* state of its resources decides: "ok", "NotFound" (the fault classes the
\* source names: DBSubnetGroupNotFoundFault, DBInstanceNotFoundFault) or
\* "Rejected" (any other client error: a dependency violation, a missing or
\* duplicate resource, an invalid parameter).
Accept(b) == IF b THEN "ok" ELSE "Rejected"

AzsOf(e, S) == {e.subnets[s].az : s \in S}
GroupAcceptable(e, S) ==
    /\ S /= {}
    /\ S \subseteq DOMAIN e.subnets
    /\ Cardinality({e.subnets[s].vpc : s \in S}) = 1
    /\ Cardinality(AzsOf(e, S)) >= 2

CreateVerdict(l, f) ==
    CASE l = "sn_create" ->
            Accept(/\ f.vpc_id \in DOMAIN ec2.vpcs
                   /\ \A s \in SubnetsIn(ec2, f.vpc_id) :
                         ec2.subnets[s].cidr /= SubnetCidr(f.i, f.kind))
      [] l \in {"cv_wait", "cv_tags", "cv_dns1", "cv_dns2", "rt_create"} ->
            Accept(f.vpc_id \in DOMAIN ec2.vpcs)
      \* a group name is used once in a VPC
      [] l = "sg_create" ->
            Accept(/\ f.vpc_id \in DOMAIN ec2.vpcs
                   /\ \A g \in SgsIn(ec2, f.vpc_id) : ec2.sgs[g].name /= op.id)
      [] l \in {"sn_wait", "sn_tags", "sn_type"} -> Accept(f.subnet_id \in DOMAIN ec2.subnets)
      [] l = "igw_tags" -> Accept(f.igw_id \in DOMAIN ec2.igws)
      [] l = "igw_attach" ->
            Accept(/\ f.igw_id \in DOMAIN ec2.igws
                   /\ f.vpc_id \in DOMAIN ec2.vpcs
                   /\ ec2.igws[f.igw_id].vpc = 0
                   /\ IgwsOf(ec2, f.vpc_id) = {})
      [] l = "rt_tags" -> Accept(f.rt_id \in DOMAIN ec2.rtbs)
      [] l = "rt_assoc" ->
            Accept(/\ f.rt_id \in DOMAIN ec2.rtbs
                   /\ CurSubnet(f) \in DOMAIN ec2.subnets
                   /\ ec2.subnets[CurSubnet(f)].vpc = ec2.rtbs[f.rt_id].vpc
                   /\ \A r \in DOMAIN ec2.rtbs : CurSubnet(f) \notin ec2.rtbs[r].assoc)
      [] l = "rt_route" ->
            Accept(/\ f.rt_id \in DOMAIN ec2.rtbs
                   /\ ec2.rtbs[f.rt_id].routes = {}
                   /\ IF f.kind = "public"
                      THEN /\ f.igw_id \in DOMAIN ec2.igws
                           /\ ec2.igws[f.igw_id].vpc = ec2.rtbs[f.rt_id].vpc
                      ELSE /\ f.nat_gateway_id \in DOMAIN ec2.nats
                           /\ ec2.nats[f.nat_gateway_id].state = "available"
                           /\ ec2.nats[f.nat_gateway_id].vpc = ec2.rtbs[f.rt_id].vpc)
      [] l = "nat_eiptags" -> Accept(f.allocation_id \in DOMAIN ec2.eips)
      [] l = "nat_create" ->
            Accept(/\ f.public_subnet_ids[1] \in DOMAIN ec2.subnets
                   /\ f.allocation_id \in DOMAIN ec2.eips
                   /\ ec2.eips[f.allocation_id].nat = 0
                   /\ IgwsOf(ec2, ec2.subnets[f.public_subnet_ids[1]].vpc) /= {})
      [] l \in {"nat_wait", "nat_tags"} ->
            Accept(/\ f.nat_gateway_id \in DOMAIN ec2.nats
                   /\ ec2.nats[f.nat_gateway_id].state \in {"pending", "available"})
      [] l = "sg_ingress" -> Accept(f.security_group_id \in DOMAIN ec2.sgs)
      [] l = "sng_describe" ->
            IF f.sng_name \in DOMAIN rds.sngs THEN "ok" ELSE "NotFound"
      [] l = "sng_create" ->
            Accept(/\ f.sng_name \notin DOMAIN rds.sngs
                   /\ GroupAcceptable(ec2, Range(f.sng_subnets)))
      [] l = "sng_tags" -> Accept(f.sng_name \in DOMAIN rds.sngs)
      [] OTHER -> "ok"

\* ---------------------------------------------------------------- cleanup: requests, verdicts
CleanupRequest(l, f) ==
    CASE l = "c_nat_describe" ->
            Req("cleanup_specific_vpc", "describe_nat_gateways", {f.cvpc}, "none")
      [] l = "c_nat_delete" ->
            Req("cleanup_specific_vpc", "delete_nat_gateway", {f.items[f.k].id}, "none")
      [] l = "c_nat_wait" ->
            Req("cleanup_specific_vpc", "wait_nat_gateway_deleted", {f.items[f.k].id}, "none")
      [] l = "c_eip_release" ->
            Req("cleanup_specific_vpc", "release_address", {f.allocation_ids[f.ai]}, "none")
      [] l = "c_rt_describe" ->
            Req("cleanup_specific_vpc", "describe_route_tables", {f.cvpc}, "none")
      [] l = "c_rt_disassoc" ->
            Req("cleanup_specific_vpc", "disassociate_route_table",
                {f.items[f.k].id, f.associations[f.aj]}, "none")
      [] l = "c_rt_delete" ->
            Req("cleanup_specific_vpc", "delete_route_table", {f.items[f.k].id}, "none")
      [] l = "c_igw_describe" ->
            Req("cleanup_specific_vpc", "describe_internet_gateways", {f.cvpc}, "none")
      [] l = "c_igw_detach" ->
            Req("cleanup_specific_vpc", "detach_internet_gateway",
                {f.items[f.k].id, f.cvpc}, "none")
      [] l = "c_igw_delete" ->
            Req("cleanup_specific_vpc", "delete_internet_gateway", {f.items[f.k].id}, "none")
      [] l = "c_sn_describe" ->
            Req("cleanup_specific_vpc", "describe_subnets", {f.cvpc}, "none")
      [] l = "c_sn_delete" ->
            Req("cleanup_specific_vpc", "delete_subnet", {f.items[f.k].id}, "none")
      [] l = "c_sg_describe" ->
            Req("cleanup_specific_vpc", "describe_security_groups", {f.cvpc}, "none")
      [] l = "c_sg_delete" ->
            Req("cleanup_specific_vpc", "delete_security_group", {f.items[f.k].id}, "none")
      [] l = "c_vpc_delete" -> Req("cleanup_specific_vpc", "delete_vpc", {f.cvpc}, "none")
      [] l = "e_sng_describe" ->
            Req("cleanup_existing_infrastructure", "describe_db_subnet_groups", {}, op.id)
      [] l = "e_sng_delete" ->
            Req("cleanup_existing_infrastructure", "delete_db_subnet_group", {}, op.id)
      [] l = "e_vpcs_tagged" ->
            Req("cleanup_existing_infrastructure", "describe_vpcs_tagged", {}, "none")
      [] l = "e_vpcs_all" ->
            Req("cleanup_existing_infrastructure", "describe_vpcs", {}, "none")

CsvLabels ==
    {"c_nat_describe", "c_nat_delete", "c_nat_wait", "c_eip_release", "c_rt_describe",
     "c_rt_disassoc", "c_rt_delete", "c_igw_describe", "c_igw_detach", "c_igw_delete",
     "c_sn_describe", "c_sn_delete", "c_sg_describe", "c_sg_delete", "c_vpc_delete"}
CeiLabels == {"e_sng_describe", "e_sng_delete", "e_vpcs_tagged", "e_vpcs_all"}

VpcDeletable(e, v) ==
    /\ v \in DOMAIN e.vpcs
    /\ SubnetsIn(e, v) = {}
    /\ IgwsOf(e, v) = {}
    /\ \A r \in RtbsIn(e, v) : e.rtbs[r].main
    /\ \A g \in SgsIn(e, v) : e.sgs[g].name = "default"
    /\ NatsIn(e, v) \cap LiveNats(e) = {}

CleanupVerdict(l, f) ==
    CASE l = "c_nat_delete" ->
            Accept(/\ f.items[f.k].id \in DOMAIN ec2.nats
                   /\ ec2.nats[f.items[f.k].id].state /= "deleted")
      [] l = "c_nat_wait" ->
            Accept(/\ f.items[f.k].id \in DOMAIN ec2.nats
                   /\ ec2.nats[f.items[f.k].id].state \in {"deleting", "deleted"})
      [] l = "c_eip_release" ->
            Accept(/\ f.allocation_ids[f.ai] \in DOMAIN ec2.eips
                   /\ ec2.eips[f.allocation_ids[f.ai]].nat = 0)
      [] l = "c_rt_disassoc" ->
            Accept(/\ f.items[f.k].id \in DOMAIN ec2.rtbs
                   /\ f.associations[f.aj] \in ec2.rtbs[f.items[f.k].id].assoc)
      [] l = "c_rt_delete" ->
            Accept(/\ f.items[f.k].id \in DOMAIN ec2.rtbs
                   /\ ~ec2.rtbs[f.items[f.k].id].main
                   /\ ec2.rtbs[f.items[f.k].id].assoc = {})
      [] l = "c_igw_detach" ->
            Accept(/\ f.items[f.k].id \in DOMAIN ec2.igws
                   /\ ec2.igws[f.items[f.k].id].vpc = f.cvpc
                   /\ NatsIn(ec2, f.cvpc) \cap LiveNats(ec2) = {})
      [] l = "c_igw_delete" ->
            Accept(/\ f.items[f.k].id \in DOMAIN ec2.igws
                   /\ ec2.igws[f.items[f.k].id].vpc = 0)
      [] l = "c_sn_delete" ->
            Accept(/\ f.items[f.k].id \in DOMAIN ec2.subnets
                   /\ \A n \in LiveNats(ec2) : ec2.nats[n].subnet /= f.items[f.k].id
                   /\ f.items[f.k].id \notin DbSubnets(rds))
      [] l = "c_sg_delete" ->
            Accept(/\ f.items[f.k].id \in DOMAIN ec2.sgs
                   /\ ec2.sgs[f.items[f.k].id].name /= "default"
                   /\ f.items[f.k].id \notin DbSgs(rds))
      [] l = "c_vpc_delete" -> Accept(VpcDeletable(ec2, f.cvpc))
      [] l = "e_sng_describe" -> IF op.id \in DOMAIN rds.sngs THEN "ok" ELSE "NotFound"
      [] l = "e_sng_delete" ->
            IF op.id \notin DOMAIN rds.sngs THEN "NotFound"
            ELSE Accept(op.id \notin DbGroups(rds))
      [] OTHER -> "ok"

\* ---------------------------------------------------------------- RDSManager: requests, verdicts
RdsRequest(l, f) ==
    CASE l = "g_vpcs" -> Req("get_vpc_infrastructure_info", "describe_vpcs_tagged", {}, "none")
      [] l = "g_subnets" ->
            Req("get_vpc_infrastructure_info", "describe_subnets", {f.info_vpc}, "none")
      [] l = "g_sgs" ->
            Req("get_vpc_infrastructure_info", "describe_security_groups",
                {f.info_vpc}, "none")
      [] l = "g_sng" ->
            Req("get_vpc_infrastructure_info", "describe_db_subnet_groups", {}, op.id)
      [] l = "r_create_db" ->
            Req("create_rds_instance", "create_db_instance", {f.info_sg}, op.id)
      [] l = "x_describe" ->
            Req("cleanup_complete_setup", "describe_db_instances", {}, "none")
      [] l = "x_delete" ->
            Req("cleanup_complete_setup", "delete_db_instance", {}, "none")
      [] l = "x_wait" ->
            Req("cleanup_complete_setup", "wait_db_instance_deleted", {}, "none")

GviLabels == {"g_vpcs", "g_subnets", "g_sgs", "g_sng"}
CcsLabels == {"x_describe", "x_delete", "x_wait"}
RdsLabels == GviLabels \cup {"r_create_db"} \cup CcsLabels

RdsVerdict(l, f) ==
    CASE l = "g_sng" -> IF op.id \in DOMAIN rds.sngs THEN "ok" ELSE "NotFound"
      [] l = "r_create_db" ->
            Accept(/\ op.db \notin DOMAIN rds.dbis
                   /\ op.id \in DOMAIN rds.sngs
                   /\ rds.sngs[op.id].subnets \subseteq DOMAIN ec2.subnets
                   /\ f.info_sg \in DOMAIN ec2.sgs
                   /\ \A s \in rds.sngs[op.id].subnets :
                         ec2.subnets[s].vpc = ec2.sgs[f.info_sg].vpc)
      [] l = "x_describe" -> IF op.db \in DOMAIN rds.dbis THEN "ok" ELSE "NotFound"
      [] l = "x_delete" ->
            IF op.db \notin DOMAIN rds.dbis THEN "NotFound"
            ELSE Accept(rds.dbis[op.db].status /= "deleting")
      [] l = "x_wait" ->
            Accept(op.db \in DOMAIN rds.dbis => rds.dbis[op.db].status = "deleting")
      [] OTHER -> "ok"

CallLabels == CreateLabels \cup CsvLabels \cup CeiLabels \cup RdsLabels

Request(l) ==
    IF l \in CreateLabels THEN CreateRequest(l, fr)
    ELSE IF l \in RdsLabels THEN RdsRequest(l, fr)
    ELSE CleanupRequest(l, fr)

Verdict(l) ==
    IF l \in CreateLabels THEN CreateVerdict(l, fr)
    ELSE IF l \in RdsLabels THEN RdsVerdict(l, fr)
    ELSE CleanupVerdict(l, fr)

Entry(l, out, err) ==
    LET r == Request(l)
    IN [fn |-> r.fn, call |-> r.call, names |-> r.names, sname |-> r.sname,
        out |-> out, err |-> err, inv |-> fr.ninv]

\* ---------------------------------------------------------------- control flow: create
Jump(l, f) == [pc |-> l, fr |-> f]

\* the statement that follows a call inside one create_* method
MethodNextOf(l, waits) ==
    CASE l = "cv_create" -> "cv_wait"
      [] l = "cv_wait" -> "cv_tags"
      [] l = "cv_tags" -> "cv_dns1"
      [] l = "cv_dns1" -> "cv_dns2"
      [] l = "cv_dns2" -> "az_describe"
      [] l = "sn_create" -> "sn_wait"
      [] l = "sn_wait" -> "sn_tags"
      [] l = "sn_tags" -> "sn_type"
      [] l = "igw_create" -> "igw_tags"
      [] l = "igw_tags" -> "igw_attach"
      [] l = "rt_create" -> "rt_tags"
      [] l = "rt_tags" -> "rt_assoc"
      [] l = "rt_assoc" -> "rt_route"
      [] l = "nat_alloc" -> "nat_eiptags"
      [] l = "nat_eiptags" -> "nat_create"
      [] l = "nat_create" -> IF waits THEN "nat_wait" ELSE "nat_tags"
      [] l = "nat_wait" -> "nat_tags"
      [] l = "sg_create" -> "sg_ingress"
      [] l = "sng_create" -> "sng_tags"
\* variant: create_nat_gateway without the nat_gateway_available waiter
MethodNextNoWait(l) == MethodNextOf(l, FALSE)
MethodNext(l) == MethodNextOf(l, TRUE)

\* for i, az in enumerate(availability_zones): public subnet, then private subnet
EnterSubnets(f) ==
    IF Len(f.azs) = 0 THEN Jump("igw_create", f)
    ELSE Jump("sn_create", [f EXCEPT !.i = 1, !.kind = "public"])
AfterSubnet(f) ==
    LET g == IF f.kind = "public"
             THEN [f EXCEPT !.public_subnet_ids = Append(@, f.subnet_id)]
             ELSE [f EXCEPT !.private_subnet_ids = Append(@, f.subnet_id)]
    IN IF f.kind = "public" THEN Jump("sn_create", [g EXCEPT !.kind = "private"])
       ELSE IF f.i < Len(f.azs)
            THEN Jump("sn_create", [g EXCEPT !.i = f.i + 1, !.kind = "public"])
            ELSE Jump("igw_create", g)
\* public_subnet_ids[0] is evaluated before create_nat_gateway is entered
EnterNat(f) ==
    IF Len(f.public_subnet_ids) = 0 THEN Jump("nat_index", f) ELSE Jump("nat_alloc", f)
EnterPublicRoutes(f) ==
    IF Len(f.public_subnet_ids) = 0 THEN EnterNat(f)
    ELSE Jump("rt_create", [f EXCEPT !.i = 1, !.kind = "public"])
EnterPrivateRoutes(f) ==
    IF Len(f.private_subnet_ids) = 0 THEN Jump("sg_create", f)
    ELSE Jump("rt_create", [f EXCEPT !.i = 1, !.kind = "private"])
AfterRoute(f) ==
    LET g == IF f.kind = "public"
             THEN [f EXCEPT !.public_route_table_ids = Append(@, f.rt_id)]
             ELSE [f EXCEPT !.private_route_table_ids = Append(@, f.rt_id)]
    IN IF f.kind = "public"
       THEN IF f.i < Len(f.public_subnet_ids)
            THEN Jump("rt_create", [g EXCEPT !.i = f.i + 1]) ELSE EnterNat(g)
       ELSE IF f.i < Len(f.private_subnet_ids)
            THEN Jump("rt_create", [g EXCEPT !.i = f.i + 1]) ELSE Jump("sg_create", g)
\* create_rds_subnet_group(name, subnet_ids), returning to label ret
CallSubnetGroup(f, name, subnet_ids, ret) ==
    Jump("sng_describe", [f EXCEPT !.sng_name = name, !.sng_subnets = subnet_ids,
                                   !.ret = ret])
ReturnSubnetGroup(f) == Jump(f.ret, [f EXCEPT !.rds_subnet_group = f.sng_name])
\* variant: the group that was found is created all the same
SubnetGroupFoundCreates(f) == Jump("sng_create", f)
\* describe_db_subnet_groups found the group: it is returned, nothing is created
SubnetGroupFound(f) == ReturnSubnetGroup(f)

\* return vpc_id: to create_complete_infrastructure, or to the caller of
\* create_vpc when the method was called on its own
ReturnVpc(f) ==
    IF op.name = "create_vpc" THEN Jump("cv_return", f)
    ELSE Jump(MethodNext("cv_dns2"), f)
\* return security_group_id, likewise
ReturnSecurityGroup(f) ==
    IF op.name = "create_rds_postgres_security_group" THEN Jump("sg_return", f)
    ELSE CallSubnetGroup(f, op.id, f.private_subnet_ids, "cci_return")

\* ---------------------------------------------------------------- steps
\* A call the provider answers: its effect on the resources, the value the
\* caller keeps and the statement that runs next.
Step(l, out, e2, r2, n2, j) ==
    /\ pc = l
    /\ Verdict(l) = "ok"
    /\ l = "cv_create" => vpcCreated < MaxVpc
    /\ ec2' = e2
    /\ rds' = r2
    /\ nextId' = n2
    /\ pc' = j.pc
    /\ fr' = j.fr
    /\ log' = Append(log, Entry(l, out, "none"))
    /\ vpcCreated' = IF l = "cv_create" THEN vpcCreated + 1 ELSE vpcCreated
    /\ UNCHANGED <<faults, op, result, pre, built, now, pg>>

NoEffect(l, j) == Step(l, 0, ec2, rds, nextId, j)

\* ---------------------------------------------------------------- create_vpc
create_vpc ==
    LET v == nextId
    IN Step("cv_create", v,
            [ec2 EXCEPT
               !.vpcs = Put(@, v, [isDefault |-> FALSE, project |-> "none",
                                   createdBy |-> "none", cidr |-> fr.cidr_block,
                                   dnsSupport |-> FALSE, dnsHostnames |-> FALSE]),
               !.rtbs = Put(@, v + 1, [vpc |-> v, main |-> TRUE, assoc |-> {},
                                       routes |-> {}]),
               !.sgs = Put(@, v + 2, [vpc |-> v, name |-> "default", ingress |-> {}])],
            rds, nextId + 3,
            Jump(MethodNext("cv_create"), [fr EXCEPT !.vpc_id = v]))

wait_vpc_available == NoEffect("cv_wait", Jump(MethodNext("cv_wait"), fr))

\* create_tags: only the tags of a VPC are read back (describe_vpcs filters)
create_tags_of_vpc ==
    Step("cv_tags", 0,
         [ec2 EXCEPT !.vpcs[fr.vpc_id].project = op.id,
                     !.vpcs[fr.vpc_id].createdBy = ToolTag],
         rds, nextId, Jump(MethodNext("cv_tags"), fr))
create_tags ==
    \/ create_tags_of_vpc
    \/ \E l \in {"sn_tags", "igw_tags", "rt_tags", "nat_eiptags"} :
          NoEffect(l, Jump(MethodNext(l), fr))
    \/ NoEffect("sn_type", AfterSubnet(fr))
    \/ NoEffect("nat_tags", EnterPrivateRoutes(fr))

modify_vpc_attribute ==
    \/ Step("cv_dns1", 0, [ec2 EXCEPT !.vpcs[fr.vpc_id].dnsSupport = TRUE],
            rds, nextId, Jump(MethodNext("cv_dns1"), fr))
    \/ Step("cv_dns2", 0, [ec2 EXCEPT !.vpcs[fr.vpc_id].dnsHostnames = TRUE],
            rds, nextId, ReturnVpc(fr))

describe_availability_zones ==
    \E n \in 0..MaxAZ :
       LET az_names == [j \in 1..n |-> j]
       IN Step("az_describe", n, ec2, rds, nextId,
               EnterSubnets([fr EXCEPT !.azs = get_availability_zones(az_names)]))

create_subnet ==
    LET s == nextId
    IN Step("sn_create", s,
            [ec2 EXCEPT !.subnets = Put(@, s, [vpc |-> fr.vpc_id,
                                               cidr |-> SubnetCidr(fr.i, fr.kind),
                                               az |-> fr.azs[fr.i]])],
            rds, nextId + 1,
            Jump(MethodNext("sn_create"), [fr EXCEPT !.subnet_id = s]))

wait_subnet_available == NoEffect("sn_wait", Jump(MethodNext("sn_wait"), fr))

create_internet_gateway ==
    LET g == nextId
    IN Step("igw_create", g, [ec2 EXCEPT !.igws = Put(@, g, [vpc |-> 0])],
            rds, nextId + 1, Jump(MethodNext("igw_create"), [fr EXCEPT !.igw_id = g]))

attach_internet_gateway ==
    Step("igw_attach", 0, [ec2 EXCEPT !.igws[fr.igw_id].vpc = fr.vpc_id],
         rds, nextId, EnterPublicRoutes(fr))

create_route_table ==
    LET r == nextId
    IN Step("rt_create", r,
            [ec2 EXCEPT !.rtbs = Put(@, r, [vpc |-> fr.vpc_id, main |-> FALSE,
                                            assoc |-> {}, routes |-> {}])],
            rds, nextId + 1, Jump(MethodNext("rt_create"), [fr EXCEPT !.rt_id = r]))

associate_route_table ==
    Step("rt_assoc", 0, [ec2 EXCEPT !.rtbs[fr.rt_id].assoc = @ \cup {CurSubnet(fr)}],
         rds, nextId, Jump(MethodNext("rt_assoc"), fr))

create_route ==
    Step("rt_route", 0, [ec2 EXCEPT !.rtbs[fr.rt_id].routes = @ \cup {RouteTarget(fr)}],
         rds, nextId, AfterRoute(fr))

index_error ==
    /\ pc = "nat_index"
    /\ pc' = "done"
    /\ result' = Raised("IndexError")
    /\ UNCHANGED <<ec2, rds, nextId, vpcCreated, faults, op, fr, log, pre, built, now, pg>>

allocate_address ==
    LET a == nextId
    IN Step("nat_alloc", a, [ec2 EXCEPT !.eips = Put(@, a, [nat |-> 0])],
            rds, nextId + 1, Jump(MethodNext("nat_alloc"), [fr EXCEPT !.allocation_id = a]))

create_nat_gateway ==
    LET n == nextId
        sub == fr.public_subnet_ids[1]
    IN Step("nat_create", n,
            [ec2 EXCEPT !.nats = Put(@, n, [subnet |-> sub, vpc |-> ec2.subnets[sub].vpc,
                                            eip |-> fr.allocation_id,
                                            state |-> "pending"]),
                        !.eips[fr.allocation_id].nat = n],
            rds, nextId + 1,
            Jump(MethodNext("nat_create"), [fr EXCEPT !.nat_gateway_id = n]))

wait_nat_gateway_available ==
    Step("nat_wait", 0, [ec2 EXCEPT !.nats[fr.nat_gateway_id].state = "available"],
         rds, nextId, Jump(MethodNext("nat_wait"), fr))

create_security_group ==
    LET g == nextId
    IN Step("sg_create", g,
            [ec2 EXCEPT !.sgs = Put(@, g, [vpc |-> fr.vpc_id, name |-> op.id,
                                           ingress |-> {}])],
            rds, nextId + 1,
            Jump(MethodNext("sg_create"), [fr EXCEPT !.security_group_id = g]))

authorize_security_group_ingress ==
    Step("sg_ingress", 0,
         [ec2 EXCEPT !.sgs[fr.security_group_id].ingress =
              @ \cup {[proto |-> "tcp", from |-> 5432, to |-> 5432, cidr |-> "10.0.0.0/16"]}],
         rds, nextId, ReturnSecurityGroup(fr))

\* ---------------------------------------------------------------- create_rds_subnet_group
create_db_subnet_group ==
    LET S == Range(fr.sng_subnets)
    IN Step("sng_create", 0, ec2,
            [rds EXCEPT !.sngs = Put(@, fr.sng_name, [subnets |-> S])],
            nextId, Jump(MethodNext("sng_create"), fr))

add_tags_to_resource == NoEffect("sng_tags", ReturnSubnetGroup(fr))

\* ---------------------------------------------------------------- return of create_complete_infrastructure
InfraRecord(f) ==
    [vpc_id |-> f.vpc_id,
     public_subnet_ids |-> f.public_subnet_ids,
     private_subnet_ids |-> f.private_subnet_ids,
     internet_gateway_id |-> f.igw_id,
     nat_gateway_id |-> f.nat_gateway_id,
     security_group_id |-> f.security_group_id,
     rds_subnet_group |-> f.rds_subnet_group]

\* ---------------------------------------------------------------- control flow: cleanup
\* variant: subnets deleted before the internet gateways
CsvOrderSubnetsFirst == <<"nat", "rt", "sn", "igw", "sg", "vpc">>
\* variant: the NAT gateways left to the provider
CsvOrderWithoutNat == <<"rt", "igw", "sn", "sg", "vpc">>
\* the six steps of cleanup_specific_vpc, in the order of the source
CsvOrder == <<"nat", "rt", "igw", "sn", "sg", "vpc">>
FirstCall(p) ==
    CASE p = "nat" -> "c_nat_describe"
      [] p = "rt" -> "c_rt_describe"
      [] p = "igw" -> "c_igw_describe"
      [] p = "sn" -> "c_sn_describe"
      [] p = "sg" -> "c_sg_describe"
      [] p = "vpc" -> "c_vpc_delete"
StepAfter(p) ==
    LET n == CHOOSE j \in 1..Len(CsvOrder) : CsvOrder[j] = p
    IN FirstCall(CsvOrder[n + 1])

StartCsv(f, v) ==
    Jump(FirstCall(CsvOrder[1]),
         [f EXCEPT !.cvpc = v, !.ninv = f.ninv + 1, !.items = <<>>, !.k = 1,
                   !.allocation_ids = <<>>, !.ai = 1, !.associations = <<>>, !.aj = 1])

\* for vpc in vpcs: the fallback loop skips vpc.get('IsDefault', False)
RECURSIVE CeiLoop(_)
CeiLoop(f) ==
    IF f.vi > Len(f.vpcs)
    THEN IF f.phase = "targeted" THEN Jump("e_vpcs_all", f) ELSE Jump("cei_return", f)
    ELSE IF f.phase = "fallback" /\ f.vpcs[f.vi].isDefault
         THEN CeiLoop([f EXCEPT !.vi = f.vi + 1])
         ELSE StartCsv(f, f.vpcs[f.vi].id)
CsvExit(f) == CeiLoop([f EXCEPT !.vi = f.vi + 1])

\* for nat_gw in NatGateways: if State not in ['deleted', 'deleting']
RECURSIVE NatLoop(_)
NatLoop(f) ==
    IF f.k > Len(f.items) THEN Jump(StepAfter("nat"), f)
    ELSE IF f.items[f.k].state \in {"deleted", "deleting"}
         THEN NatLoop([f EXCEPT !.k = f.k + 1])
         ELSE Jump("c_nat_delete",
                   [f EXCEPT !.allocation_ids = f.items[f.k].allocation_ids, !.ai = 1])
\* for allocation_id in allocation_ids
EipLoop(f) ==
    IF f.ai > Len(f.allocation_ids) THEN NatLoop([f EXCEPT !.k = f.k + 1])
    ELSE Jump("c_eip_release", f)
\* for association in rt.get('Associations', []): if 'SubnetId' in association
AssocLoop(f) ==
    IF f.aj > Len(f.associations) THEN Jump("c_rt_delete", f)
    ELSE Jump("c_rt_disassoc", f)
\* for rt in RouteTables: if not is_main
RECURSIVE RtLoop(_)
RtLoop(f) ==
    IF f.k > Len(f.items) THEN Jump(StepAfter("rt"), f)
    ELSE IF f.items[f.k].main THEN RtLoop([f EXCEPT !.k = f.k + 1])
    ELSE AssocLoop([f EXCEPT !.associations = f.items[f.k].subnets, !.aj = 1])
IgwLoop(f) ==
    IF f.k > Len(f.items) THEN Jump(StepAfter("igw"), f) ELSE Jump("c_igw_detach", f)
SnLoop(f) ==
    IF f.k > Len(f.items) THEN Jump(StepAfter("sn"), f) ELSE Jump("c_sn_delete", f)
\* the loop over the security groups without its test of the group name
SgLoopAll(f) ==
    IF f.k > Len(f.items) THEN Jump(StepAfter("sg"), f) ELSE Jump("c_sg_delete", f)
\* for sg in SecurityGroups: if sg['GroupName'] != 'default'
RECURSIVE SgLoop(_)
SgLoop(f) ==
    IF f.k > Len(f.items) THEN Jump(StepAfter("sg"), f)
    ELSE IF f.items[f.k].name = "default" THEN SgLoop([f EXCEPT !.k = f.k + 1])
    ELSE Jump("c_sg_delete", f)

Listing(S, rec(_)) == LET q == SetToSeq(S) IN [j \in 1..Len(q) |-> rec(q[j])]
Listed(f, items) == [f EXCEPT !.items = items, !.k = 1]
NextItem(f) == [f EXCEPT !.k = f.k + 1]

\* ---------------------------------------------------------------- cleanup_specific_vpc
describe_nat_gateways ==
    LET rec(n) == [id |-> n, state |-> ec2.nats[n].state,
                   allocation_ids |-> <<ec2.nats[n].eip>>]
    IN NoEffect("c_nat_describe", NatLoop(Listed(fr, Listing(NatsIn(ec2, fr.cvpc), rec))))

delete_nat_gateway ==
    Step("c_nat_delete", 0, [ec2 EXCEPT !.nats[fr.items[fr.k].id].state = "deleting"],
         rds, nextId, Jump("c_nat_wait", fr))

wait_nat_gateway_deleted ==
    LET n == fr.items[fr.k].id
    IN Step("c_nat_wait", 0,
            [ec2 EXCEPT !.nats[n].state = "deleted",
                        !.eips = [a \in DOMAIN @ |->
                                     IF @[a].nat = n THEN [nat |-> 0] ELSE @[a]]],
            rds, nextId, EipLoop(fr))

release_address ==
    Step("c_eip_release", 0, [ec2 EXCEPT !.eips = Drop(@, {fr.allocation_ids[fr.ai]})],
         rds, nextId, EipLoop([fr EXCEPT !.ai = fr.ai + 1]))

describe_route_tables ==
    LET rec(r) == [id |-> r, main |-> ec2.rtbs[r].main,
                   subnets |-> SetToSeq(ec2.rtbs[r].assoc)]
    IN NoEffect("c_rt_describe", RtLoop(Listed(fr, Listing(RtbsIn(ec2, fr.cvpc), rec))))

disassociate_route_table ==
    Step("c_rt_disassoc", 0,
         [ec2 EXCEPT !.rtbs[fr.items[fr.k].id].assoc = @ \ {fr.associations[fr.aj]}],
         rds, nextId, AssocLoop([fr EXCEPT !.aj = fr.aj + 1]))

delete_route_table ==
    Step("c_rt_delete", 0, [ec2 EXCEPT !.rtbs = Drop(@, {fr.items[fr.k].id})],
         rds, nextId, RtLoop(NextItem(fr)))

describe_internet_gateways ==
    LET rec(g) == [id |-> g]
    IN NoEffect("c_igw_describe", IgwLoop(Listed(fr, Listing(IgwsOf(ec2, fr.cvpc), rec))))

detach_internet_gateway ==
    Step("c_igw_detach", 0, [ec2 EXCEPT !.igws[fr.items[fr.k].id].vpc = 0],
         rds, nextId, Jump("c_igw_delete", fr))

delete_internet_gateway ==
    Step("c_igw_delete", 0, [ec2 EXCEPT !.igws = Drop(@, {fr.items[fr.k].id})],
         rds, nextId, IgwLoop(NextItem(fr)))

describe_subnets_cleanup ==
    LET rec(x) == [id |-> x]
    IN NoEffect("c_sn_describe", SnLoop(Listed(fr, Listing(SubnetsIn(ec2, fr.cvpc), rec))))
describe_subnets_info ==
    NoEffect("g_subnets",
             Jump("g_sgs", [fr EXCEPT !.info_subnets = SetToSeq(SubnetsIn(ec2, fr.info_vpc))]))
describe_subnets ==
    \/ describe_subnets_cleanup
    \/ describe_subnets_info

\* deleting a subnet takes its route table associations with it
delete_subnet ==
    LET x == fr.items[fr.k].id
    IN Step("c_sn_delete", 0,
            [ec2 EXCEPT !.subnets = Drop(@, {x}),
                        !.rtbs = [r \in DOMAIN @ |-> [@[r] EXCEPT !.assoc = @ \ {x}]]],
            rds, nextId, SnLoop(NextItem(fr)))

delete_security_group ==
    Step("c_sg_delete", 0, [ec2 EXCEPT !.sgs = Drop(@, {fr.items[fr.k].id})],
         rds, nextId, SgLoop(NextItem(fr)))

\* the main route table and the default security group go with the VPC
delete_vpc ==
    Step("c_vpc_delete", 0,
         [ec2 EXCEPT !.vpcs = Drop(@, {fr.cvpc}),
                     !.rtbs = Drop(@, RtbsIn(ec2, fr.cvpc)),
                     !.sgs = Drop(@, SgsIn(ec2, fr.cvpc))],
         rds, nextId, CsvExit(fr))

\* ---------------------------------------------------------------- get_vpc_infrastructure_info
\* create_complete_rds_setup after get_vpc_infrastructure_info returned
AfterInfo(f) ==
    IF f.has_info
    THEN IF f.info_group_exists THEN Jump("r_create_db", f)
         ELSE CallSubnetGroup(f, op.id, f.info_subnets, "r_create_db")
    ELSE Jump("cv_create", f)

VpcRecord(v) == [id |-> v, isDefault |-> ec2.vpcs[v].isDefault]

\* describe_vpcs with the tag:Project and tag:CreatedBy filters; the provider
\* fixes the order of the answer, Vpcs[0] is any of the matching VPCs
Tagged == IF pc \in {"e_vpcs_tagged", "g_vpcs"} THEN TaggedVpcs(ec2, op.id) ELSE {}
describe_vpcs_tagged_cleanup ==
    NoEffect("e_vpcs_tagged",
             CeiLoop([fr EXCEPT !.phase = "targeted", !.vi = 1,
                                !.vpcs = Listing(Tagged, VpcRecord)]))
describe_vpcs_tagged_none ==
    /\ Tagged = {}
    /\ NoEffect("g_vpcs", AfterInfo([fr EXCEPT !.has_info = FALSE]))
describe_vpcs_tagged_first ==
    \E v \in Tagged : NoEffect("g_vpcs", Jump("g_subnets", [fr EXCEPT !.info_vpc = v]))
describe_vpcs_tagged ==
    \/ describe_vpcs_tagged_cleanup
    \/ describe_vpcs_tagged_none
    \/ describe_vpcs_tagged_first

describe_vpcs ==
    NoEffect("e_vpcs_all",
             CeiLoop([fr EXCEPT !.phase = "fallback", !.vi = 1,
                                !.vpcs = Listing(DOMAIN ec2.vpcs, VpcRecord)]))

\* with the group-name filter f'{instance_identifier}-sg' in get_vpc_infrastructure_info
describe_security_groups_cleanup ==
    LET rec(g) == [id |-> g, name |-> ec2.sgs[g].name]
    IN NoEffect("c_sg_describe", SgLoop(Listed(fr, Listing(SgsIn(ec2, fr.cvpc), rec))))
describe_security_groups_info ==
    LET named == {g \in SgsIn(ec2, fr.info_vpc) : ec2.sgs[g].name = op.id}
    IN NoEffect("g_sgs",
                Jump("g_sng", [fr EXCEPT !.info_sg =
                                  IF named = {} THEN 0 ELSE SetToSeq(named)[1]]))
describe_security_groups ==
    \/ describe_security_groups_cleanup
    \/ describe_security_groups_info

describe_db_subnet_groups_found == NoEffect("sng_describe", SubnetGroupFound(fr))
describe_db_subnet_groups_cleanup == NoEffect("e_sng_describe", Jump("e_sng_delete", fr))
describe_db_subnet_groups_info ==
    NoEffect("g_sng", AfterInfo([fr EXCEPT !.has_info = TRUE, !.info_group_exists = TRUE]))
describe_db_subnet_groups ==
    \/ describe_db_subnet_groups_found
    \/ describe_db_subnet_groups_cleanup
    \/ describe_db_subnet_groups_info

delete_db_subnet_group ==
    Step("e_sng_delete", 0, ec2, [rds EXCEPT !.sngs = Drop(@, {op.id})], nextId,
         Jump("e_vpcs_tagged", fr))

\* the instance gets a network interface in one subnet of its subnet group
create_db_instance ==
    /\ pc = "r_create_db"
    /\ Verdict("r_create_db") = "ok"
    /\ \E s \in rds.sngs[op.id].subnets :
          Step("r_create_db", 0, ec2,
               [rds EXCEPT !.dbis = Put(@, op.db, [sng |-> op.id, sg |-> fr.info_sg,
                                                   subnet |-> s, status |-> "creating"])],
               nextId, Jump("r_return", fr))

\* ---------------------------------------------------------------- cleanup_complete_setup
describe_db_instances == NoEffect("x_describe", Jump("x_delete", fr))

\* SkipFinalSnapshot=True: the instance goes to 'deleting' whatever its status
delete_db_instance ==
    Step("x_delete", 0, ec2, [rds EXCEPT !.dbis[op.db].status = "deleting"], nextId,
         Jump("x_wait", fr))

\* the db_instance_deleted waiter returns once the instance is gone; then
\* cleanup_existing_infrastructure(instance_identifier) is called
wait_db_instance_deleted ==
    Step("x_wait", 0, ec2, [rds EXCEPT !.dbis = Drop(@, {op.db})], nextId,
         Jump("e_sng_describe", fr))

\* ---------------------------------------------------------------- returns
Finish(res) ==
    /\ pc' = "done"
    /\ result' = res
    /\ UNCHANGED <<ec2, rds, nextId, vpcCreated, faults, op, fr, log, pre, now, pg>>

\* what the run made: the returned record and the two route table lists
Built(f) ==
    [vpc |-> f.vpc_id,
     subnets |-> Range(f.public_subnet_ids) \cup Range(f.private_subnet_ids),
     rtbs |-> Range(f.public_route_table_ids) \cup Range(f.private_route_table_ids),
     igw |-> f.igw_id, nat |-> f.nat_gateway_id, sg |-> f.security_group_id]
NoBuilt ==
    [vpc |-> 0, subnets |-> {}, rtbs |-> {}, igw |-> 0, nat |-> 0, sg |-> 0]

create_complete_infrastructure_return ==
    /\ pc = "cci_return"
    /\ op.name = "create_complete_infrastructure"
    /\ Finish(Returned(InfraRecord(fr)))
    /\ built' = [built EXCEPT ![op.id] = Built(fr)]

\* vpc_info = {'vpc_id': vpc_info_raw['vpc_id'], ..., 'internet_gateway':
\* vpc_info_raw['igw_id'], ...}: the keys read from the returned record
ConvertKeys ==
    {"vpc_id", "public_subnet_ids", "private_subnet_ids", "igw_id", "nat_gateway_id",
     "security_group_id"}

\* the operations that run create_complete_rds_setup
RdsSetupCallers == {"create_complete_rds_setup", "setup_complete_ecommerce_database"}

convert_vpc_info ==
    /\ pc = "cci_return"
    /\ op.name \in RdsSetupCallers
    /\ LET vpc_info_raw == InfraRecord(fr)
       IN IF ConvertKeys \subseteq DOMAIN vpc_info_raw
          THEN /\ pc' = "r_create_db"
               /\ fr' = [fr EXCEPT !.has_info = TRUE, !.info_vpc = fr.vpc_id,
                                   !.info_sg = fr.security_group_id,
                                   !.info_group_exists = TRUE]
               /\ UNCHANGED result
          ELSE /\ pc' = "done"
               /\ result' = Raised("KeyError")
               /\ UNCHANGED fr
    /\ built' = [built EXCEPT ![op.id] = Built(fr)]
    /\ UNCHANGED <<ec2, rds, nextId, vpcCreated, faults, op, log, pre, now, pg>>

create_complete_rds_setup_return ==
    /\ pc = "r_return"
    /\ op.name = "create_complete_rds_setup"
    /\ UNCHANGED built
    /\ Finish(Returned([rds_response |-> [DBInstanceIdentifier |-> op.db],
                        vpc_info |-> [vpc_id |-> fr.info_vpc,
                                      security_group_id |-> fr.info_sg,
                                      subnet_group_name |-> op.id]]))

create_rds_subnet_group_return ==
    /\ pc = "crsg_return"
    /\ UNCHANGED built
    /\ Finish(Returned([name |-> fr.rds_subnet_group]))

create_vpc_return ==
    /\ pc = "cv_return"
    /\ UNCHANGED built
    /\ Finish(Returned([vpc_id |-> fr.vpc_id]))

create_rds_postgres_security_group_return ==
    /\ pc = "sg_return"
    /\ UNCHANGED built
    /\ Finish(Returned([security_group_id |-> fr.security_group_id]))

cleanup_existing_infrastructure_return ==
    /\ pc = "cei_return"
    /\ UNCHANGED built
    /\ Finish(Returned([none |-> TRUE]))

\* ---------------------------------------------------------------- exceptions
\* A call that raises: the provider rejects the request for the state of its
\* resources, or fails for a reason outside them (throttling, a waiter that
\* gives up, credentials, the network).
Fail(l, err, j, res) ==
    /\ pc = l
    /\ err /= "ok"
    /\ err = Verdict(l) \/ (err = "Fault" /\ faults < MaxFaults)
    /\ l = "cv_create" => vpcCreated < MaxVpc
    /\ faults' = IF err = "Fault" THEN faults + 1 ELSE faults
    /\ log' = Append(log, Entry(l, 0, err))
    /\ pc' = j.pc
    /\ fr' = j.fr
    /\ result' = res
    /\ UNCHANGED <<ec2, rds, nextId, vpcCreated, op, pre, built, now, pg>>

Errors == {"Rejected", "NotFound", "Fault"}

\* except Exception as e: print(...); raise  -- in every create_* method and in
\* create_rds_instance; neither create_complete_infrastructure nor
\* create_complete_rds_setup catches it
\* variant: create_vpc prints the error and returns None
ExceptPrintOnly(l, err) ==
    IF l \in {"cv_create", "cv_wait", "cv_tags", "cv_dns1", "cv_dns2"}
    THEN [pc |-> "az_describe", fr |-> [fr EXCEPT !.vpc_id = 0], result |-> result]
    ELSE [pc |-> "done", fr |-> fr, result |-> Raised(err)]
ExceptReraise(l, err) == [pc |-> "done", fr |-> fr, result |-> Raised(err)]

reraise ==
    \E l \in CreateLabels \cup {"r_create_db"}, err \in Errors :
       /\ ~(l = "sng_describe" /\ err = "NotFound")
       /\ LET h == ExceptReraise(l, err)
          IN Fail(l, err, Jump(h.pc, h.fr), h.result)

\* except self.rds_client.exceptions.DBSubnetGroupNotFoundFault
subnet_group_not_found_create ==
    Fail("sng_describe", "NotFound", Jump("sng_create", fr), result)
subnet_group_not_found_cleanup ==
    Fail("e_sng_describe", "NotFound", Jump("e_vpcs_tagged", fr), result)
subnet_group_not_found_info ==
    Fail("g_sng", "NotFound",
         AfterInfo([fr EXCEPT !.has_info = TRUE, !.info_group_exists = FALSE]), result)
subnet_group_not_found ==
    \/ subnet_group_not_found_create
    \/ subnet_group_not_found_cleanup
    \/ subnet_group_not_found_info

\* the first try of cleanup_existing_infrastructure catches nothing else (the
\* delete follows a describe that found the group, so it is never answered
\* with DBSubnetGroupNotFoundFault)
cleanup_existing_uncaught ==
    \/ Fail("e_sng_describe", "Fault", Jump("done", fr), Raised("Fault"))
    \/ \E err \in {"Rejected", "Fault"} :
          Fail("e_sng_delete", err, Jump("done", fr), Raised(err))

\* except Exception as e: print(...)  -- around both describe_vpcs loops
cleanup_existing_swallow ==
    \/ Fail("e_vpcs_tagged", "Fault", Jump("e_vpcs_all", fr), result)
    \/ Fail("e_vpcs_all", "Fault", Jump("cei_return", fr), result)

\* except Exception as e: print(...); return None
info_error ==
    \E l \in GviLabels :
       Fail(l, "Fault", AfterInfo([fr EXCEPT !.has_info = FALSE]), result)

\* except self.rds_client.exceptions.DBInstanceNotFoundFault: print(...)
instance_not_found ==
    Fail("x_describe", "NotFound", Jump("e_sng_describe", fr), result)

\* except Exception as e: print(f"Error deleting RDS instance: {e}"), and the
\* VPC cleanup is called all the same
cleanup_complete_swallow ==
    \E l \in CcsLabels, err \in {"Rejected", "Fault"} :
       Fail(l, err, Jump("e_sng_describe", fr), result)

\* the except clauses of cleanup_specific_vpc: one per resource inside each
\* loop, one around the whole method
ExceptCleanupOf(l, f, waitGuardsRelease) ==
    CASE l = "c_nat_delete" -> NatLoop(NextItem(f))
      [] l = "c_nat_wait" -> IF waitGuardsRelease THEN NatLoop(NextItem(f)) ELSE EipLoop(f)
      [] l = "c_eip_release" -> EipLoop([f EXCEPT !.ai = f.ai + 1])
      [] l = "c_rt_disassoc" -> AssocLoop([f EXCEPT !.aj = f.aj + 1])
      [] l = "c_rt_delete" -> RtLoop(NextItem(f))
      [] l \in {"c_igw_detach", "c_igw_delete"} -> IgwLoop(NextItem(f))
      [] l = "c_sn_delete" -> SnLoop(NextItem(f))
      [] l = "c_sg_delete" -> SgLoop(NextItem(f))
      [] OTHER -> CsvExit(f)
\* variant: the waiter in a try of its own, the releases after it
ExceptCleanupWaitAlone(l, f) == ExceptCleanupOf(l, f, FALSE)
ExceptCleanup(l, f) == ExceptCleanupOf(l, f, TRUE)

cleanup_swallow ==
    \E l \in CsvLabels, err \in {"Rejected", "Fault"} :
       Fail(l, err, ExceptCleanup(l, fr), result)

\* ---------------------------------------------------------------- operations
Enter(name, id, db, j) ==
    /\ pc = "idle"
    /\ op' = [name |-> name, id |-> id, db |-> db]
    /\ pc' = j.pc
    /\ fr' = j.fr
    /\ pre' = [ec2 |-> ec2, rds |-> rds]
    /\ UNCHANGED <<ec2, rds, nextId, vpcCreated, faults, log, result, built, now, pg>>

Begin(name, id, db, l) == Enter(name, id, db, Jump(l, fr))

create_complete_infrastructure ==
    /\ vpcCreated < MaxVpc
    /\ \E id \in Ids : Begin("create_complete_infrastructure", id, "none", "cv_create")

cleanup_existing_infrastructure ==
    \E id \in Ids : Begin("cleanup_existing_infrastructure", id, "none", "e_sng_describe")

create_complete_rds_setup ==
    \E id \in Ids, db \in DbIds : Begin("create_complete_rds_setup", id, db, "g_vpcs")

cleanup_complete_setup ==
    \E id \in Ids, db \in DbIds : Begin("cleanup_complete_setup", id, db, "x_describe")

\* create_rds_subnet_group(f'{id}-subnet-group', subnet_ids) called on its own,
\* with the subnets of one VPC
create_rds_subnet_group ==
    \E id \in Ids, v \in DOMAIN ec2.vpcs :
       Enter("create_rds_subnet_group", id, "none",
             CallSubnetGroup(fr, id, SetToSeq(SubnetsIn(ec2, v)), "crsg_return"))

\* create_vpc(cidr_block, id) called on its own
create_vpc_on_its_own ==
    /\ vpcCreated < MaxVpc
    /\ \E c \in CidrBlocks, id \in Ids :
          Enter("create_vpc", id, "none", Jump("cv_create", [fr EXCEPT !.cidr_block = c]))

\* create_rds_postgres_security_group(vpc_id, id) called on its own, for a VPC
\* that create_vpc made
create_rds_postgres_security_group ==
    \E v \in {x \in DOMAIN ec2.vpcs : ~ec2.vpcs[x].isDefault}, id \in Ids :
       Enter("create_rds_postgres_security_group", id, "none",
             Jump("sg_create", [fr EXCEPT !.vpc_id = v]))

NoOp == [name |-> "none", id |-> "none", db |-> "none"]
NoPre == [ec2 |-> [none |-> TRUE], rds |-> [none |-> TRUE]]

\* an exception raised inside setup_complete_ecommerce_database is on its way
\* to the except clause of that function
Propagating ==
    op.name = "setup_complete_ecommerce_database" /\ result.status = "raised"

Return ==
    /\ pc = "done"
    /\ ~Propagating
    /\ pc' = "idle"
    /\ op' = NoOp
    /\ fr' = Fr0
    /\ log' = <<>>
    /\ result' = NoResult
    /\ pre' = NoPre
    /\ UNCHANGED <<ec2, rds, nextId, vpcCreated, faults, built, now, pg>>

\* ---------------------------------------------------------------- specification
\* The account holds its default VPC (with a subnet, an attached internet
\* gateway, the main route table and the default security group); its tags
\* are the account owner's.
Init ==
    /\ \E tagged \in BOOLEAN :
          ec2 = [vpcs |-> (DefaultVpc :> [isDefault |-> TRUE,
                                          project |-> IF tagged THEN "a" ELSE "none",
                                          createdBy |-> IF tagged THEN ToolTag ELSE "none",
                                          cidr |-> "172.31.0.0/16",
                                          dnsSupport |-> TRUE, dnsHostnames |-> TRUE]),
                 subnets |-> (DefaultSubnet :> [vpc |-> DefaultVpc, cidr |-> 0, az |-> 1]),
                 igws |-> (DefaultIgw :> [vpc |-> DefaultVpc]),
                 rtbs |-> (DefaultRtb :> [vpc |-> DefaultVpc, main |-> TRUE, assoc |-> {},
                                          routes |-> {[t |-> "igw", id |-> DefaultIgw]}]),
                 sgs |-> (DefaultSg :> [vpc |-> DefaultVpc, name |-> "default",
                                        ingress |-> {}]),
                 nats |-> <<>>,
                 eips |-> <<>>]
    /\ rds = [sngs |-> <<>>, dbis |-> <<>>]
    /\ now = 0
    /\ pg = EmptyDatabase
    /\ nextId = FirstFreeId
    /\ vpcCreated = 0
    /\ faults = 0
    /\ pc = "idle"
    /\ op = NoOp
    /\ fr = Fr0
    /\ log = <<>>
    /\ result = NoResult
    /\ pre = NoPre
    /\ built = [id \in Ids |-> NoBuilt]

Next ==
    \/ create_complete_infrastructure
    \/ cleanup_existing_infrastructure
    \/ create_complete_rds_setup
    \/ create_rds_subnet_group
    \/ create_rds_subnet_group_return
    \/ Return
    \/ create_vpc
    \/ wait_vpc_available
    \/ create_tags
    \/ modify_vpc_attribute
    \/ describe_availability_zones
    \/ create_subnet
    \/ wait_subnet_available
    \/ create_internet_gateway
    \/ attach_internet_gateway
    \/ create_route_table
    \/ associate_route_table
    \/ create_route
    \/ index_error
    \/ allocate_address
    \/ create_nat_gateway
    \/ wait_nat_gateway_available
    \/ create_security_group
    \/ authorize_security_group_ingress
    \/ describe_db_subnet_groups
    \/ create_db_subnet_group
    \/ add_tags_to_resource
    \/ create_complete_infrastructure_return
    \/ convert_vpc_info
    \/ describe_vpcs_tagged
    \/ describe_vpcs
    \/ describe_subnets
    \/ describe_security_groups
    \/ create_db_instance
    \/ create_complete_rds_setup_return
    \/ delete_db_subnet_group
    \/ cleanup_existing_infrastructure_return
    \/ describe_nat_gateways
    \/ delete_nat_gateway
    \/ wait_nat_gateway_deleted
    \/ release_address
    \/ describe_route_tables
    \/ disassociate_route_table
    \/ delete_route_table
    \/ describe_internet_gateways
    \/ detach_internet_gateway
    \/ delete_internet_gateway
    \/ delete_subnet
    \/ delete_security_group
    \/ delete_vpc
    \/ reraise
    \/ subnet_group_not_found
    \/ cleanup_existing_uncaught
    \/ cleanup_existing_swallow
    \/ info_error
    \/ cleanup_swallow
    \/ cleanup_complete_setup
    \/ describe_db_instances
    \/ delete_db_instance
    \/ wait_db_instance_deleted
    \/ instance_not_found
    \/ cleanup_complete_swallow

Spec == Init /\ [][Next]_vars

\* ================================================================ properties
\* The log grows by one entry per provider call and is emptied only when the
\* operation has returned, so a statement about the newest entry and the
\* entries before it, holding in every reachable state, holds for every pair
\* of calls of every operation.
Last == Len(log)
Before(j) == 1..(j - 1)
Failed(e) == e.err \in {"Rejected", "Fault"}
NoFailure == \A i \in 1..Len(log) : ~Failed(log[i])
NoFault == \A i \in 1..Len(log) : log[i].err /= "Fault"
Done(name) == pc = "done" /\ op.name = name
Ok(i, call, names) ==
    log[i].call = call /\ log[i].names = names /\ log[i].err = "none"

\* the class of resource a call of cleanup_specific_vpc removes; 0: none
DeleteClass(call) ==
    CASE call \in {"delete_nat_gateway", "release_address"} -> 1
      [] call \in {"disassociate_route_table", "delete_route_table"} -> 2
      [] call \in {"detach_internet_gateway", "delete_internet_gateway"} -> 3
      [] call = "delete_subnet" -> 4
      [] call = "delete_security_group" -> 5
      [] call = "delete_vpc" -> 6
      [] OTHER -> 0
IsDelete(e) == DeleteClass(e.call) > 0 \/ e.call = "delete_db_subnet_group"
SameCleanup(i, j) ==
    /\ log[i].fn = "cleanup_specific_vpc"
    /\ log[j].fn = "cleanup_specific_vpc"
    /\ log[i].inv = log[j].inv

\* the delete call that attempts each resource of a class
AttemptCall(c) ==
    CASE c = 1 -> "delete_nat_gateway"
      [] c = 2 -> "delete_route_table"
      [] c = 3 -> "detach_internet_gateway"
      [] c = 4 -> "delete_subnet"
      [] c = 5 -> "delete_security_group"
\* what is left of a class in VPC v
Left(c, v) ==
    CASE c = 1 -> {n \in NatsIn(ec2, v) : ec2.nats[n].state \in {"pending", "available"}}
      [] c = 2 -> {r \in RtbsIn(ec2, v) : ~ec2.rtbs[r].main}
      [] c = 3 -> IgwsOf(ec2, v)
      [] c = 4 -> SubnetsIn(ec2, v)
      [] c = 5 -> {g \in SgsIn(ec2, v) : ec2.sgs[g].name /= "default"}
ListCalls ==
    {"describe_nat_gateways", "describe_route_tables", "describe_internet_gateways",
     "describe_subnets", "describe_security_groups"}
\* the VPC an invocation of cleanup_specific_vpc works on
CleanedVpc(j) ==
    UNION {log[i].names :
              i \in {k \in 1..j : SameCleanup(k, j) /\ log[k].call = "describe_nat_gateways"}}
CleanupOver == pc \notin CsvLabels \/ fr.ninv /= log[Last].inv

HeldBy(a) == {n \in DOMAIN pre.ec2.nats : pre.ec2.nats[n].eip = a}
C2_ReleaseAfterDeleted ==
    (Last > 0 /\ log[Last].call = "release_address") =>
       \A a \in log[Last].names :
          \E n \in HeldBy(a) :
             /\ \E i1 \in Before(Last) :
                   /\ SameCleanup(i1, Last)
                   /\ Ok(i1, "delete_nat_gateway", {n})
                   /\ \E i2 \in (i1 + 1)..(Last - 1) :
                         SameCleanup(i2, Last) /\ Ok(i2, "wait_nat_gateway_deleted", {n})
             /\ \A i \in Before(Last) :
                   (/\ SameCleanup(i, Last)
                    /\ log[i].call \in {"delete_nat_gateway", "wait_nat_gateway_deleted"}
                    /\ log[i].names = {n})
                      => log[i].err = "none"

C2_Witness ==
    /\ Last > 0
    /\ log[Last].call = "release_address"
    /\ log[Last].err = "none"

\* C3: cleanup_existing_infrastructure(id) started with no subnet group
\* '<id>-subnet-group' and no non-default VPC, the provider failing for no
\* outside reason, returns without raising, issues no delete call and leaves
\* the provider's resources as they were.
NothingToCleanUp ==
    /\ op.id \notin DOMAIN pre.rds.sngs
    /\ \A v \in DOMAIN pre.ec2.vpcs : pre.ec2.vpcs[v].isDefault
C3_Idempotent ==
    (Done("cleanup_existing_infrastructure") /\ NothingToCleanUp /\ NoFault) =>
       /\ result.status = "returned"
       /\ \A i \in 1..Len(log) : ~IsDelete(log[i])
       /\ ec2 = pre.ec2
       /\ rds = pre.rds

\* C4: what create_complete_infrastructure(id) made is gone after
\* cleanup_existing_infrastructure(id)
MadeFor(id) == built[id]
Intact(b, id, st) ==
    /\ b.vpc \in DOMAIN st.ec2.vpcs
    /\ b.subnets \subseteq DOMAIN st.ec2.subnets
    /\ b.rtbs \subseteq DOMAIN st.ec2.rtbs
    /\ b.igw \in DOMAIN st.ec2.igws
    /\ st.ec2.igws[b.igw].vpc = b.vpc
    /\ b.nat \in DOMAIN st.ec2.nats
    /\ st.ec2.nats[b.nat].state = "available"
    /\ b.sg \in DOMAIN st.ec2.sgs
    /\ id \in DOMAIN st.rds.sngs
Gone(b, id) ==
    /\ b.vpc \notin DOMAIN ec2.vpcs
    /\ b.subnets \cap DOMAIN ec2.subnets = {}
    /\ b.rtbs \cap DOMAIN ec2.rtbs = {}
    /\ b.igw \notin DOMAIN ec2.igws
    /\ ec2.nats[b.nat].state = "deleted"
    /\ b.sg \notin DOMAIN ec2.sgs
    /\ id \notin DOMAIN rds.sngs
NoDatabaseIn(b, id, st) ==
    /\ id \notin DbGroups(st.rds)
    /\ b.subnets \cap DbSubnets(st.rds) = {}
    /\ b.sg \notin DbSgs(st.rds)
TeardownRuns ==
    /\ Done("cleanup_existing_infrastructure")
    /\ MadeFor(op.id) /= NoBuilt
    /\ Intact(MadeFor(op.id), op.id, pre)
    /\ NoFault

\* C4 as stated: after create_complete_infrastructure(id) succeeded, a
\* cleanup_existing_infrastructure(id) that meets no failure other than the
\* provider refusing to delete what still has dependents leaves none of the
\* VPC, its subnets, custom route tables, internet gateway, NAT gateway,
\* security group and the subnet group.
C4_TeardownRemovesAll_AsStated == TeardownRuns => Gone(MadeFor(op.id), op.id)

\* C4 (amended): the same, provided no database instance uses the subnet group
\* or sits in the VPC's subnets or security group when the cleanup starts.
C4_TeardownRemovesAll ==
    (TeardownRuns /\ NoDatabaseIn(MadeFor(op.id), op.id, pre))
       => Gone(MadeFor(op.id), op.id)

C4_Witness ==
    /\ TeardownRuns
    /\ NoDatabaseIn(MadeFor(op.id), op.id, pre)
    /\ Gone(MadeFor(op.id), op.id)
    /\ result.status = "returned"

\* C5: cleanup_existing_infrastructure(id) leaves every VPC that is not tagged
\* Project=id and CreatedBy=VPCInstanceCreator, and what it holds, unchanged.
Holds(e, v) ==
    [subnets |-> SubnetsIn(e, v), rtbs |-> RtbsIn(e, v), igws |-> IgwsOf(e, v),
     sgs |-> SgsIn(e, v), nats |-> NatsIn(e, v) \cap LiveNats(e)]
C5_OnlySameName ==
    Done("cleanup_existing_infrastructure") =>
       \A v \in DOMAIN pre.ec2.vpcs \ TaggedVpcs(pre.ec2, op.id) :
          /\ v \in DOMAIN ec2.vpcs
          /\ Holds(ec2, v) = Holds(pre.ec2, v)

\* C6: create_complete_rds_setup(db_id, id), with no VPC tagged for id, at
\* least two zones reported and every provider call succeeding, returns a
\* result holding 'rds_response' and 'vpc_info' after create_db_instance was
\* issued with the subnet group '<id>-subnet-group' and the new security group.
ZonesReported(n) ==
    \E i \in 1..Len(log) :
       /\ log[i].call = "describe_availability_zones"
       /\ log[i].err = "none"
       /\ log[i].out >= n
C6_CompleteSetup ==
    (/\ Done("create_complete_rds_setup")
     /\ TaggedVpcs(pre.ec2, op.id) = {}
     /\ ZonesReported(2)
     /\ NoFailure) =>
       /\ result.status = "returned"
       /\ DOMAIN result.value = {"rds_response", "vpc_info"}
       /\ \E i \in 1..Len(log) :
             /\ log[i].call = "create_db_instance"
             /\ log[i].sname = op.id
             /\ log[i].names = {MadeFor(op.id).sg}

\* C7: create_complete_infrastructure(id), with at least two zones reported
\* and every provider call succeeding, returns a record with exactly the seven
\* keys, two public and two private subnets, all of them in the returned VPC,
\* the internet gateway attached to that VPC, and rds_subnet_group = the
\* name made from id.
C7_ReturnedRecord ==
    (Done("create_complete_infrastructure") /\ ZonesReported(2) /\ NoFailure) =>
       /\ result.status = "returned"
       /\ DOMAIN result.value =
             {"vpc_id", "public_subnet_ids", "private_subnet_ids",
              "internet_gateway_id", "nat_gateway_id", "security_group_id",
              "rds_subnet_group"}
       /\ Len(result.value.public_subnet_ids) = 2
       /\ Len(result.value.private_subnet_ids) = 2
       /\ Cardinality(Range(result.value.public_subnet_ids)
                      \cup Range(result.value.private_subnet_ids)) = 4
       /\ \A x \in Range(result.value.public_subnet_ids)
                   \cup Range(result.value.private_subnet_ids) :
             /\ x \in DOMAIN ec2.subnets
             /\ ec2.subnets[x].vpc = result.value.vpc_id
       /\ result.value.vpc_id \in DOMAIN ec2.vpcs
       /\ result.value.internet_gateway_id \in DOMAIN ec2.igws
       /\ ec2.igws[result.value.internet_gateway_id].vpc = result.value.vpc_id
       /\ result.value.rds_subnet_group = op.id

C7_Witness ==
    /\ Done("create_complete_infrastructure")
    /\ ZonesReported(2)
    /\ NoFailure
    /\ result.status = "returned"

\* C8: in a run of create_complete_infrastructure every request that names a
\* resource names one that an earlier successful response of the run returned;
\* create_db_subnet_group comes after every subnet of the run was created and
\* reported available; a route to the internet gateway comes after its attach,
\* a route to the NAT gateway after the wait for it to be available.
CreateFns ==
    {"create_vpc", "create_subnet", "create_complete_infrastructure",
     "create_internet_gateway", "create_route_table", "create_route",
     "create_nat_gateway", "create_rds_postgres_security_group",
     "create_rds_subnet_group"}
CreationCalls ==
    {"create_vpc", "create_subnet", "create_internet_gateway", "create_route_table",
     "allocate_address", "create_nat_gateway", "create_security_group"}
InCreateInfrastructure ==
    \/ op.name = "create_complete_infrastructure"
    \/ op.name = "create_complete_rds_setup" /\ ~fr.has_info
ReturnedBy(call, j) ==
    {log[i].out : i \in {k \in Before(j) : log[k].call = call /\ log[k].err = "none"}}
C8_IdentifiersThreaded ==
    (Last > 0 /\ InCreateInfrastructure /\ log[Last].fn \in CreateFns) =>
       LET e == log[Last]
       IN /\ \A x \in e.names :
                \E i \in Before(Last) :
                   /\ log[i].call \in CreationCalls
                   /\ log[i].err = "none"
                   /\ log[i].out = x
          /\ e.call = "create_db_subnet_group" =>
                /\ Cardinality(ReturnedBy("create_subnet", Last)) = 2 * Len(fr.azs)
                /\ \A x \in ReturnedBy("create_subnet", Last) :
                      \E i \in Before(Last) : Ok(i, "wait_subnet_available", {x})
          /\ e.call = "create_route" =>
                /\ \A x \in e.names \cap ReturnedBy("create_internet_gateway", Last) :
                      \E i \in Before(Last) :
                         Ok(i, "attach_internet_gateway", {x, fr.vpc_id})
                /\ \A x \in e.names \cap ReturnedBy("create_nat_gateway", Last) :
                      \E i \in Before(Last) : Ok(i, "wait_nat_gateway_available", {x})
                /\ e.names \cap (ReturnedBy("create_internet_gateway", Last)
                                 \cup ReturnedBy("create_nat_gateway", Last)) /= {}

C8_Witness ==
    /\ Last > 0
    /\ InCreateInfrastructure
    /\ log[Last].call = "create_db_subnet_group"
    /\ log[Last].err = "none"
    /\ \E i \in Before(Last) : log[i].call = "create_route" /\ log[i].err = "none"

\* C9: in every run of create_complete_infrastructure and of
\* create_complete_rds_setup each create_db_subnet_group request lists only
\* subnets created as private subnets.
C9_OnlyPrivateSubnets ==
    (/\ Last > 0
     /\ op.name \in {"create_complete_infrastructure", "create_complete_rds_setup"}
     /\ log[Last].call = "create_db_subnet_group") =>
       \A x \in log[Last].names :
          x \in DOMAIN ec2.subnets /\ IsPrivateCidr(ec2.subnets[x].cidr)

\* C10 as stated: a provider error in any operation reaches the operation's
\* caller, except a 'not found' code.
C10_EveryErrorReraised_AsStated ==
    (pc = "done" /\ ~NoFailure) => result.status = "raised"

\* C10 (amended): a provider error in a create_* method or in
\* create_rds_instance ends the operation at once and reaches its caller, only
\* DBSubnetGroupNotFoundFault of create_rds_subnet_group's lookup being
\* handled; cleanup_specific_vpc and get_vpc_infrastructure_info let no error
\* out; cleanup_existing_infrastructure lets out every error of its subnet
\* group calls but the lookup's not-found, and none of describe_vpcs.
ReraiseFns == CreateFns \cup {"get_availability_zones", "create_rds_instance"}
HandledNotFound(e) == e.call = "describe_db_subnet_groups" /\ e.err = "NotFound"
C10_ErrorHandling ==
    Last > 0 =>
       LET e == log[Last]
       IN /\ (e.fn \in ReraiseFns /\ e.err /= "none" /\ ~HandledNotFound(e))
                => pc = "done" /\ result = Raised(e.err)
          /\ e.fn \in {"cleanup_specific_vpc", "get_vpc_infrastructure_info"}
                => result.status /= "raised"
          /\ e.fn = "cleanup_existing_infrastructure" =>
                IF /\ e.call \in {"describe_db_subnet_groups", "delete_db_subnet_group"}
                   /\ e.err /= "none"
                   /\ ~HandledNotFound(e)
                THEN pc = "done" /\ result = Raised(e.err)
                ELSE result.status /= "raised"

C10_Witness ==
    /\ Done("create_complete_infrastructure")
    /\ Last > 0
    /\ log[Last].call = "create_nat_gateway"
    /\ log[Last].err = "Fault"
    /\ result = Raised("Fault")

\* C11: in cleanup_complete_setup(db_id, id) no delete call for the subnet
\* group, for a VPC or for anything inside a VPC is issued while the RDS
\* instance db_id still exists at the provider.
C11_InstanceDeletedFirst ==
    (/\ Last > 0
     /\ op.name = "cleanup_complete_setup"
     /\ IsDelete(log[Last])) => op.db \notin DOMAIN rds.dbis

\* C17: create_rds_subnet_group(name, subnets) called on a name whose group
\* exists issues no create_db_subnet_group call, changes nothing and, the
\* provider failing for no outside reason, returns; called on a name without a
\* group it issues one create_db_subnet_group call, for that name and those
\* subnets; whenever it returns, the returned value is the requested name and
\* the group exists, so that a second call in a row finds it and creates nothing.
GroupCreations == {i \in 1..Len(log) : log[i].call = "create_db_subnet_group"}
GroupExisted == op.id \in DOMAIN pre.rds.sngs
C17_GetOrCreate ==
    (op.name = "create_rds_subnet_group") =>
       /\ GroupExisted => GroupCreations = {} /\ rds = pre.rds /\ ec2 = pre.ec2
       /\ (GroupExisted /\ pc = "done" /\ NoFault) => result.status = "returned"
       /\ Cardinality(GroupCreations) <= 1
       /\ \A i \in GroupCreations :
             log[i].sname = op.id /\ log[i].names = Range(fr.sng_subnets)
       /\ (pc = "done" /\ result.status = "returned") =>
             /\ result.value = [name |-> op.id]
             /\ op.id \in DOMAIN rds.sngs
             /\ ~GroupExisted =>
                   /\ \E i \in GroupCreations : log[i].err = "none"
                   /\ rds.sngs[op.id].subnets = Range(fr.sng_subnets)

C17_Witness ==
    /\ Done("create_rds_subnet_group")
    /\ GroupExisted
    /\ result.status = "returned"
    /\ result.value.name = op.id

\* C18: whatever set of zones describe_availability_zones reports, the list
\* get_availability_zones returns holds at least 2 different zones.
C18_AtLeastTwoZones ==
    (/\ Last > 0
     /\ log[Last].call = "describe_availability_zones"
     /\ log[Last].err = "none") => Cardinality(Range(fr.azs)) >= 2

\* C19: after create_complete_infrastructure has returned, every public subnet
\* of the record is associated with one route table, associated with nothing
\* else, whose only route goes to the internet gateway of the record, attached
\* to the record's VPC; every private subnet is associated with one route
\* table, associated with nothing else, whose only route goes to the NAT
\* gateway of the record and none to an internet gateway; the NAT gateway is
\* in the first public subnet.
TablesOf(s) == {r \in DOMAIN ec2.rtbs : s \in ec2.rtbs[r].assoc}
OwnTableTo(s, target) ==
    \E r \in TablesOf(s) :
       /\ TablesOf(s) = {r}
       /\ ec2.rtbs[r].assoc = {s}
       /\ ec2.rtbs[r].routes = {target}
C19_RouteTables ==
    (Done("create_complete_infrastructure") /\ result.status = "returned") =>
       LET rec == result.value
       IN /\ ec2.igws[rec.internet_gateway_id].vpc = rec.vpc_id
          /\ \A s \in Range(rec.public_subnet_ids) :
                OwnTableTo(s, [t |-> "igw", id |-> rec.internet_gateway_id])
          /\ \A s \in Range(rec.private_subnet_ids) :
                /\ OwnTableTo(s, [t |-> "nat", id |-> rec.nat_gateway_id])
                /\ \A r \in TablesOf(s) : \A x \in ec2.rtbs[r].routes : x.t /= "igw"
          /\ Len(rec.public_subnet_ids) > 0
          /\ ec2.nats[rec.nat_gateway_id].subnet = rec.public_subnet_ids[1]

C19_Witness ==
    /\ Done("create_complete_infrastructure")
    /\ result.status = "returned"
    /\ Len(result.value.private_subnet_ids) = 2
    /\ \A s \in Range(result.value.private_subnet_ids) :
          OwnTableTo(s, [t |-> "nat", id |-> result.value.nat_gateway_id])
    /\ \A s \in Range(result.value.public_subnet_ids) :
          OwnTableTo(s, [t |-> "igw", id |-> result.value.internet_gateway_id])

\* ---------------------------------------------------------------- create_vpc and
\* create_rds_postgres_security_group called on their own
\* A second specification: create_vpc(cidr_block, id), then
\* create_rds_postgres_security_group(vpc_id, id) on the VPC it made.
\* except Exception as e: print(...); raise  -- in both methods
reraise_on_its_own ==
    \E l \in {"cv_create", "cv_wait", "cv_tags", "cv_dns1", "cv_dns2",
               "sg_create", "sg_ingress"}, err \in {"Rejected", "Fault"} :
       LET h == ExceptReraise(l, err)
       IN Fail(l, err, Jump(h.pc, h.fr), h.result)

NextSecurityGroup ==
    \/ create_vpc_on_its_own
    \/ create_vpc
    \/ wait_vpc_available
    \/ create_tags_of_vpc
    \/ modify_vpc_attribute
    \/ create_vpc_return
    \/ create_rds_postgres_security_group
    \/ create_security_group
    \/ authorize_security_group_ingress
    \/ create_rds_postgres_security_group_return
    \/ reraise_on_its_own
    \/ Return

SpecSecurityGroup == Init /\ [][NextSecurityGroup]_vars

\* C20: when create_rds_postgres_security_group(vpc, id) has returned, for a
\* VPC that create_vpc made with whatever CIDR block, the group it returns is
\* in that VPC and has a tcp rule from port 5432 to port 5432 whose source
\* range is the CIDR block of that VPC.
C20_IngressFromVpc ==
    (Done("create_rds_postgres_security_group") /\ result.status = "returned") =>
       LET g == result.value.security_group_id
       IN /\ ec2.sgs[g].vpc = fr.vpc_id
          /\ [proto |-> "tcp", from |-> 5432, to |-> 5432,
              cidr |-> ec2.vpcs[fr.vpc_id].cidr] \in ec2.sgs[g].ingress

\* ---------------------------------------------------------------- wait_for_rds_available
\* A third specification: RDSOperations.wait_for_rds_available called with any
\* max_wait_minutes, the provider reporting any status, or an error, at each
\* poll.  The clock advances by what time.sleep is asked to wait.
SleepSeconds == 30
PendingStatuses == {"creating", "modifying"}
FailedStatusesOnlyFailed == {"failed"}
FailedStatuses == {"failed", "incompatible-parameters", "incompatible-restore"}
Statuses == PendingStatuses \cup {"available"} \cup
            {"failed", "incompatible-parameters", "incompatible-restore"}
\* what check_rds_instance_status returns: a dict with 'status', or with 'error'
\* for DBInstanceNotFoundFault ("NotFound") and for any other exception
StatusInfos ==
    {[status |-> st, error |-> "none"] : st \in Statuses}
       \cup {[status |-> "none", error |-> e] : e \in {"NotFound", "Fault"}}

WaitEntry(call, out, err) ==
    [fn |-> "wait_for_rds_available", call |-> call, names |-> {}, sname |-> "none",
     out |-> out, err |-> err, inv |-> 0]

\* variant: the deadline itself still counts as inside the wait
WhileTestInclusive(f) == now - f.start_time <= f.max_wait_seconds
\* while time.time() - start_time < max_wait_seconds
WhileTest(f) == now - f.start_time < f.max_wait_seconds

\* the if / elif chain on status_info
WaitDecision(info) ==
    IF info.error /= "none" THEN [pc |-> "done", result |-> Returned(FALSE)]
    ELSE IF info.status = "available" THEN [pc |-> "done", result |-> Returned(TRUE)]
    ELSE IF info.status \in FailedStatuses THEN [pc |-> "done", result |-> Returned(FALSE)]
    ELSE [pc |-> "w_sleep", result |-> result]

wait_for_rds_available ==
    /\ pc = "idle"
    /\ now <= MaxStartTime
    /\ \E db \in DbIds, m \in 0..MaxWaitMinutes :
          /\ op' = [name |-> "wait_for_rds_available", id |-> "none", db |-> db]
          /\ fr' = [max_wait_minutes |-> m, start_time |-> now,
                    max_wait_seconds |-> m * 60]
    /\ pc' = "w_while"
    /\ UNCHANGED <<ec2, rds, nextId, vpcCreated, faults, log, result, pre, built, now, pg>>

while_loop ==
    /\ pc = "w_while"
    /\ WhileTest(fr)
    /\ pc' = "w_poll"
    /\ UNCHANGED <<ec2, rds, nextId, vpcCreated, faults, op, fr, log, result, pre,
                   built, now, pg>>

wait_timeout ==
    /\ pc = "w_while"
    /\ ~WhileTest(fr)
    /\ pc' = "done"
    /\ result' = Returned(FALSE)
    /\ UNCHANGED <<ec2, rds, nextId, vpcCreated, faults, op, fr, log, pre, built, now, pg>>

check_rds_instance_status ==
    /\ pc = "w_poll"
    /\ \E info \in StatusInfos :
          /\ log' = Append(log, WaitEntry("describe_db_instances", info.status, info.error))
          /\ pc' = WaitDecision(info).pc
          /\ result' = WaitDecision(info).result
    /\ UNCHANGED <<ec2, rds, nextId, vpcCreated, faults, op, fr, pre, built, now, pg>>

sleep ==
    /\ pc = "w_sleep"
    /\ now' = now + SleepSeconds
    /\ log' = Append(log, WaitEntry("sleep", SleepSeconds, "none"))
    /\ pc' = "w_while"
    /\ UNCHANGED <<ec2, rds, nextId, vpcCreated, faults, op, fr, result, pre, built, pg>>

NextWait ==
    \/ wait_for_rds_available
    \/ while_loop
    \/ wait_timeout
    \/ check_rds_instance_status
    \/ sleep
    \/ Return

SpecWait == Init /\ [][NextWait]_vars
\* the method runs on: a step that can be taken is taken
SpecWaitFair == SpecWait /\ WF_vars(NextWait)

\* C12: wait_for_rds_available returns True only when its last poll observed
\* 'available'; a poll that reports an error or one of 'failed',
\* 'incompatible-parameters', 'incompatible-restore' is followed by nothing but
\* the return of False; a poll that reports any other status is followed by a
\* sleep of 30 seconds, and the sleep by the next poll or, the deadline having
\* passed, by the return of False; the method never raises.
Waiting == op.name = "wait_for_rds_available"
Polls == {i \in 1..Len(log) : log[i].call = "describe_db_instances"}
EndsWait(e) ==
    e.call = "describe_db_instances" /\
       (e.err /= "none" \/ e.out \in {"available", "failed", "incompatible-parameters",
                                      "incompatible-restore"})
C12_WaitOutcome ==
    Waiting =>
       /\ pc = "done" => result.status = "returned" /\ result.value \in BOOLEAN
       /\ (pc = "done" /\ result.value = TRUE) =>
             Last > 0 /\ Ok(Last, "describe_db_instances", {}) /\ log[Last].out = "available"
       /\ (Last > 0 /\ EndsWait(log[Last])) =>
             /\ pc = "done"
             /\ result.value = (log[Last].err = "none" /\ log[Last].out = "available")
       /\ (Last > 0 /\ log[Last].call = "describe_db_instances" /\ ~EndsWait(log[Last])) =>
             pc = "w_sleep"
       /\ (Last > 0 /\ log[Last].call = "sleep") =>
             /\ log[Last].out = 30
             /\ now - fr.start_time = 30 * Cardinality({i \in 1..Last : log[i].call = "sleep"})
             /\ log[Last - 1].call = "describe_db_instances" /\ ~EndsWait(log[Last - 1])
             /\ pc \in {"w_while", "w_poll", "done"}
             /\ pc = "w_poll" => now - fr.start_time < fr.max_wait_seconds
             /\ pc = "done" =>
                   result.value = FALSE /\ now - fr.start_time >= fr.max_wait_seconds
       /\ (Last > 1 /\ log[Last].call = "describe_db_instances") =>
             log[Last - 1].call = "sleep"
       /\ \A i \in 1..(Last - 1) : ~EndsWait(log[i])

C12_Witness ==
    /\ Waiting
    /\ pc = "done"
    /\ result.value = FALSE
    /\ Cardinality(Polls) = 3
    /\ log[Last].out = "incompatible-restore"
    /\ log[Last - 1].call = "sleep"

\* C13: wait_for_rds_available terminates whatever the provider reports; the
\* clock advancing by 30 seconds per sleep, it makes at most
\* 2 * max_wait_minutes polls, and none, returning False, when
\* max_wait_minutes = 0.
PollBound ==
    Waiting =>
       /\ Cardinality(Polls) <= 2 * fr.max_wait_minutes
       /\ (fr.max_wait_minutes = 0 /\ pc = "done") => log = <<>> /\ result.value = FALSE
C13_Terminates == []PollBound /\ (Waiting ~> pc = "done")

C13_Witness ==
    /\ Waiting
    /\ pc = "done"
    /\ fr.max_wait_minutes = 2
    /\ Cardinality(Polls) = 4
    /\ log[Last].call = "sleep"

\* ---------------------------------------------------------------- RDSOperations: the schema
\* A fourth specification: the four Lambda handlers of rds_operations.py and
\* the methods of RDSOperations they call.  One step is one statement sent to
\* PostgreSQL or one call to the provider.
TableOrderOrdersFirst ==
    <<"users", "categories", "products", "orders", "addresses", "shopping_carts",
      "cart_items", "order_items", "reviews">>
TableOrder ==
    <<"users", "categories", "products", "addresses", "shopping_carts", "cart_items",
      "orders", "order_items", "reviews">>
\* the tables named by the REFERENCES clauses of a table's CREATE statement
References(t) ==
    CASE t = "users" -> {}
      [] t = "categories" -> {"categories"}
      [] t = "products" -> {"categories"}
      [] t = "addresses" -> {"users"}
      [] t = "shopping_carts" -> {"users"}
      [] t = "cart_items" -> {"shopping_carts", "products"}
      [] t = "orders" -> {"users", "addresses"}
      [] t = "order_items" -> {"orders", "products"}
      [] t = "reviews" -> {"products", "users"}
      [] OTHER -> {}
Indexes ==
    <<[name |-> "idx_products_category", table |-> "products"],
      [name |-> "idx_products_sku", table |-> "products"],
      [name |-> "idx_orders_user", table |-> "orders"],
      [name |-> "idx_orders_status", table |-> "orders"],
      [name |-> "idx_order_items_order", table |-> "order_items"],
      [name |-> "idx_cart_items_cart", table |-> "cart_items"],
      [name |-> "idx_reviews_product", table |-> "reviews"],
      [name |-> "idx_addresses_user", table |-> "addresses"]>>
\* the INSERT statements of sample_data in the order of the dict; k is the row
\* within its table (for products also the category_id the row refers to)
SampleData ==
    <<[table |-> "categories", k |-> 1], [table |-> "categories", k |-> 2],
      [table |-> "categories", k |-> 3], [table |-> "users", k |-> 1],
      [table |-> "users", k |-> 2], [table |-> "products", k |-> 1],
      [table |-> "products", k |-> 2], [table |-> "products", k |-> 3]>>

\* the queries passed to lambda_execute_query: the one of demo_lambda.py and
\* the one of the handler's docstring
QueryTables == "SELECT table_name FROM information_schema.tables"
QueryUsers == "SELECT * FROM users LIMIT 10"
\* the Python types psycopg2 gives the columns of a row of users
UsersRow ==
    <<"int", "str", "str", "str", "str", "str", "NoneType", "datetime", "datetime",
      "bool">>
QueryResult(q, db) ==
    IF q = QueryUsers THEN [i \in 1..Cardinality(db.rows.users) |-> UsersRow]
    ELSE [i \in 1..Cardinality(db.tables) |-> <<"str">>]
\* json.dumps: the default encoder knows dict, list, tuple, str, int, float,
\* bool and None, and raises TypeError for anything else
JsonTypes == {"str", "int", "float", "bool", "NoneType"}
JsonDumps(rows) ==
    IF \A i \in 1..Len(rows) : \A c \in 1..Len(rows[i]) : rows[i][c] \in JsonTypes
    THEN "ok" ELSE "TypeError"

\* event.get(...): "none" stands for a key that is absent (None)
Truthy(x) == x \notin {"none", ""}
Handlers ==
    {"lambda_create_tables", "lambda_insert_sample_data", "lambda_create_custom_table",
     "lambda_execute_query"}
RequiredFields(name) ==
    CASE name = "lambda_create_custom_table" ->
            {"db_instance_identifier", "table_name", "table_schema"}
      [] name = "lambda_execute_query" -> {"db_instance_identifier", "query"}
      [] OTHER -> {"db_instance_identifier"}
\* the statement the operation runs once connect_to_database has returned
FirstStatement(name) ==
    CASE name = "lambda_create_tables" -> "t_create"
      [] name = "lambda_insert_sample_data" -> "i_insert"
      [] name = "lambda_create_custom_table" -> "u_create"
      [] name = "lambda_execute_query" -> "q_execute"
NoEvent ==
    [db_instance_identifier |-> "none", table_name |-> "none", table_schema |-> "none",
     query |-> "none", fetch |-> FALSE, use_secrets |-> FALSE, secret_name |-> "none"]
\* if use_secrets and secret_name: credentials from Secrets Manager
UsesSecrets(f) == f.event.use_secrets /\ Truthy(f.event.secret_name)
DbFr0 ==
    [event |-> NoEvent, after |-> "none", ti |-> 1, xi |-> 1, qi |-> 1,
     created_tables |-> <<>>, errors |-> <<>>, inserted |-> 0,
     underlying |-> "none", rows |-> <<>>]

DbRequest(l, f) ==
    CASE l = "d_credentials" ->
            IF UsesSecrets(f)
            THEN Req("get_db_credentials_from_secrets", "get_secret_value", {},
                     f.event.secret_name)
            ELSE Req("get_db_credentials_from_env", "os.environ.get", {}, "none")
      [] l = "d_connect" -> Req("connect_to_database", "psycopg2.connect", {}, "none")
      [] l = "d_version" -> Req("connect_to_database", "SELECT version()", {}, "none")
      [] l = "t_create" ->
            Req("create_ecommerce_tables", "CREATE TABLE", {}, TableOrder[f.ti])
      [] l = "t_index" ->
            Req("create_ecommerce_tables", "CREATE INDEX", {}, Indexes[f.xi].table)
      [] l = "i_insert" -> Req("insert_sample_data", "INSERT", {}, SampleData[f.qi].table)
      [] l = "u_create" -> Req("create_custom_table", "CREATE TABLE", {}, f.event.table_name)
      [] l = "q_execute" -> Req("lambda_execute_query", f.event.query, {}, "none")
DbEntry(l, err) ==
    LET r == DbRequest(l, fr)
    IN [fn |-> r.fn, call |-> r.call, names |-> r.names, sname |-> r.sname,
        out |-> 0, err |-> err, inv |-> 0]

\* what PostgreSQL answers from the tables and rows it holds
DbVerdict(l, f) ==
    CASE l = "t_create" ->
            Accept(References(TableOrder[f.ti]) \ {TableOrder[f.ti]} \subseteq pg.tables)
      [] l = "t_index" -> Accept(Indexes[f.xi].table \in pg.tables)
      [] l = "i_insert" ->
            Accept(/\ SampleData[f.qi].table \in pg.tables
                   /\ SampleData[f.qi].table = "products" =>
                         pg.rows.categories >= SampleData[f.qi].k)
      [] l = "q_execute" -> Accept(f.event.query = QueryUsers => "users" \in pg.tables)
      [] OTHER -> "ok"

\* a continuation: where the operation goes on, with which locals and result
Cont(l, f, res) == [pc |-> l, fr |-> f, result |-> res]

DbStep(l, p2, j) ==
    /\ pc = l
    /\ DbVerdict(l, fr) = "ok"
    /\ pg' = p2
    /\ log' = Append(log, DbEntry(l, "none"))
    /\ pc' = j.pc
    /\ fr' = j.fr
    /\ result' = j.result
    /\ UNCHANGED <<ec2, rds, nextId, vpcCreated, faults, op, pre, built, now>>

DbFail(l, err, j) ==
    /\ pc = l
    /\ err /= "ok"
    /\ err = DbVerdict(l, fr) \/ (err = "Fault" /\ faults < MaxFaults)
    /\ faults' = IF err = "Fault" THEN faults + 1 ELSE faults
    /\ log' = Append(log, DbEntry(l, err))
    /\ pc' = j.pc
    /\ fr' = j.fr
    /\ result' = j.result
    /\ UNCHANGED <<ec2, rds, nextId, vpcCreated, op, pre, built, now, pg>>

\* an exception leaves the method of RDSOperations: create_custom_table turns
\* it into False; from the other methods it reaches the except of the handler
RaisedToCaller(f) ==
    CASE op.name = "lambda_create_custom_table" ->
            Cont("h_return", [f EXCEPT !.underlying = "failure"], result)
      [] op.name = "setup_complete_ecommerce_database" ->
            Cont("done", [f EXCEPT !.underlying = "raised"], Raised("Exception"))
      [] OTHER ->
            Cont("done", [f EXCEPT !.underlying = "raised"], Returned([statusCode |-> 500]))

\* ---------------------------------------------------------------- connect_to_database
\* the test of conn_info['status'] in connect_to_database, left out
AvailableUnchecked(info) == info.error = "none"
\* get_db_connection_info returned, and not (conn_info['status'] != 'available')
Available(info) == info.error = "none" /\ info.status = "available"

get_db_connection_info ==
    /\ pc = "d_info"
    /\ \E info \in StatusInfos :
          /\ log' = Append(log, [fn |-> "get_db_connection_info",
                                 call |-> "describe_db_instances", names |-> {},
                                 sname |-> "none", out |-> info.status,
                                 err |-> info.error, inv |-> 0])
          /\ LET j == IF Available(info)
                      THEN Cont("d_credentials", fr, result) ELSE RaisedToCaller(fr)
             IN pc' = j.pc /\ fr' = j.fr /\ result' = j.result
    /\ UNCHANGED <<ec2, rds, nextId, vpcCreated, faults, op, pre, built, now, pg>>

\* credentials = get_db_credentials_from_secrets(secret_name) or ..._from_env()
get_db_credentials == DbStep("d_credentials", pg, Cont("d_connect", fr, result))
\* get_secret_value raised: except Exception: print; raise
get_secret_error ==
    /\ pc = "d_credentials"
    /\ UsesSecrets(fr)
    /\ DbFail("d_credentials", "Fault", RaisedToCaller(fr))
psycopg2_connect == DbStep("d_connect", pg, Cont("d_version", fr, result))
select_version == DbStep("d_version", pg, Cont(fr.after, fr, result))
connection_error ==
    \E l \in {"d_connect", "d_version"} : DbFail(l, "Fault", RaisedToCaller(fr))

\* ---------------------------------------------------------------- create_ecommerce_tables
AfterTable(f) ==
    IF f.ti < Len(TableOrder) THEN Cont("t_create", [f EXCEPT !.ti = f.ti + 1], result)
    ELSE Cont("t_index", f, result)
AfterIndex(f) ==
    IF f.xi < Len(Indexes) THEN Cont("t_index", [f EXCEPT !.xi = f.xi + 1], result)
    ELSE Cont("t_return", f, result)

create_table ==
    LET t == TableOrder[fr.ti]
    IN DbStep("t_create", [pg EXCEPT !.tables = @ \cup {t}],
              AfterTable([fr EXCEPT !.created_tables = Append(@, t)]))
create_table_error ==
    \E err \in {"Rejected", "Fault"} :
       DbFail("t_create", err, AfterTable([fr EXCEPT !.errors = Append(@, TableOrder[fr.ti])]))
create_index ==
    DbStep("t_index", [pg EXCEPT !.indexes = @ \cup {Indexes[fr.xi].name}], AfterIndex(fr))
create_index_warning ==
    \E err \in {"Rejected", "Fault"} : DbFail("t_index", err, AfterIndex(fr))

\* return {'success': len(errors) == 0, 'created_tables': ..., 'errors': ...}
TableResult(f) ==
    [success |-> f.errors = <<>>, created_tables |-> f.created_tables,
     errors |-> f.errors, total_tables |-> Len(TableOrder)]
Reported(success) == IF success THEN "success" ELSE "failure"
\* if table_result['success']: in setup_complete_ecommerce_database
SeedsAlways(table_result) == TRUE
Seeds(table_result) == table_result.success
\* where the caller of create_ecommerce_tables goes on: the handler returns,
\* the setup script calls insert_sample_data or skips it
AfterTables(f) ==
    LET g == [f EXCEPT !.underlying = Reported(TableResult(f).success)]
    IN CASE op.name /= "setup_complete_ecommerce_database" -> Cont("h_return", g, result)
         [] OTHER ->
            IF Seeds(TableResult(f))
            THEN Cont("d_info", [g EXCEPT !.after = "i_insert", !.errors = <<>>], result)
            ELSE Cont("s_return", g, result)
create_ecommerce_tables_return ==
    /\ pc = "t_return"
    /\ pc' = AfterTables(fr).pc
    /\ fr' = AfterTables(fr).fr
    /\ UNCHANGED <<ec2, rds, nextId, vpcCreated, faults, op, log, result, pre, built,
                   now, pg>>

\* ---------------------------------------------------------------- insert_sample_data
AfterInsert(f) ==
    IF f.qi < Len(SampleData) THEN Cont("i_insert", [f EXCEPT !.qi = f.qi + 1], result)
    ELSE Cont("i_return", f, result)
\* categories has no unique column besides its serial key: every INSERT adds a
\* row; username and sku are UNIQUE: ON CONFLICT DO NOTHING keeps the one row
Inserted(rows, q) ==
    CASE q.table = "categories" -> [rows EXCEPT !.categories = @ + 1]
      [] q.table = "users" -> [rows EXCEPT !.users = @ \cup {q.k}]
      [] q.table = "products" -> [rows EXCEPT !.products = @ \cup {q.k}]
insert_row ==
    DbStep("i_insert", [pg EXCEPT !.rows = Inserted(@, SampleData[fr.qi])],
           AfterInsert([fr EXCEPT !.inserted = @ + 1]))
insert_row_error ==
    \E err \in {"Rejected", "Fault"} :
       DbFail("i_insert", err, AfterInsert([fr EXCEPT !.errors = Append(@, fr.qi)]))
insert_sample_data_return ==
    /\ pc = "i_return"
    /\ pc' = IF op.name = "setup_complete_ecommerce_database" THEN "s_return" ELSE "h_return"
    /\ fr' = [fr EXCEPT !.underlying = Reported(fr.errors = <<>>)]
    /\ UNCHANGED <<ec2, rds, nextId, vpcCreated, faults, op, log, result, pre, built,
                   now, pg>>

\* ---------------------------------------------------------------- create_custom_table
create_custom_table ==
    DbStep("u_create", [pg EXCEPT !.tables = @ \cup {fr.event.table_name}],
           Cont("h_return", [fr EXCEPT !.underlying = "success"], result))
create_custom_table_error == DbFail("u_create", "Fault", RaisedToCaller(fr))

\* ---------------------------------------------------------------- execute_sql_query
\* results = cursor.fetchall() if fetch, else commit and None
execute_sql_query ==
    DbStep("q_execute", pg,
           Cont("h_return",
                [fr EXCEPT !.underlying = "success",
                           !.rows = IF fr.event.fetch
                                    THEN QueryResult(fr.event.query, pg) ELSE <<>>],
                result))
execute_sql_query_error ==
    \E err \in {"Rejected", "Fault"} : DbFail("q_execute", err, RaisedToCaller(fr))

\* ---------------------------------------------------------------- the handlers
Events(name) ==
    {e \in [db_instance_identifier : {"db", "", "none"},
            table_name : {"analytics", "none"},
            table_schema : {"CREATE TABLE analytics", "none"},
            query : {QueryTables, QueryUsers, "none"},
            fetch : BOOLEAN,
            use_secrets : BOOLEAN,
            secret_name : {"my-secret", "none"}] :
        /\ name /= "lambda_create_custom_table" =>
              e.table_name = "none" /\ e.table_schema = "none"
        /\ name /= "lambda_execute_query" => e.query = "none" /\ e.fetch = FALSE}

Invoke(name) ==
    /\ pc = "idle"
    /\ \E e \in Events(name) :
          /\ op' = [name |-> name, id |-> "none", db |-> e.db_instance_identifier]
          /\ fr' = [DbFr0 EXCEPT !.event = e, !.after = FirstStatement(name)]
    /\ pc' = "h_validate"
    /\ UNCHANGED <<ec2, rds, nextId, vpcCreated, faults, log, result, pre, built, now, pg>>

lambda_create_tables == Invoke("lambda_create_tables")
lambda_insert_sample_data ==
    /\ pg.rows.categories + 3 <= MaxCategoryRows
    /\ Invoke("lambda_insert_sample_data")
lambda_create_custom_table == Invoke("lambda_create_custom_table")
lambda_execute_query == Invoke("lambda_execute_query")

FieldMissing == \E k \in RequiredFields(op.name) : ~Truthy(fr.event[k])

\* if not db_instance_identifier / if not all([...]): return statusCode 400
bad_request ==
    /\ pc = "h_validate"
    /\ FieldMissing
    /\ pc' = "done"
    /\ result' = Returned([statusCode |-> 400])
    /\ UNCHANGED <<ec2, rds, nextId, vpcCreated, faults, op, fr, log, pre, built, now, pg>>

valid_request ==
    /\ pc = "h_validate"
    /\ ~FieldMissing
    /\ pc' = "d_info"
    /\ UNCHANGED <<ec2, rds, nextId, vpcCreated, faults, op, fr, log, result, pre,
                   built, now, pg>>

\* return {'statusCode': 200 if ... else 500, 'body': json.dumps({...})}, inside
\* the try: a TypeError of json.dumps lands in except Exception (statusCode 500)
StatusCode(name, f) ==
    IF name = "lambda_execute_query"
    THEN IF JsonDumps(f.rows) = "ok" THEN 200 ELSE 500
    ELSE IF f.underlying = "success" THEN 200 ELSE 500
lambda_return ==
    /\ pc = "h_return"
    /\ pc' = "done"
    /\ result' = Returned([statusCode |-> StatusCode(op.name, fr)])
    /\ UNCHANGED <<ec2, rds, nextId, vpcCreated, faults, op, fr, log, pre, built, now, pg>>

NextSchema ==
    \/ lambda_create_tables
    \/ lambda_insert_sample_data
    \/ lambda_create_custom_table
    \/ lambda_execute_query
    \/ bad_request
    \/ valid_request
    \/ get_db_connection_info
    \/ get_db_credentials
    \/ psycopg2_connect
    \/ select_version
    \/ get_secret_error
    \/ connection_error
    \/ create_table
    \/ create_table_error
    \/ create_index
    \/ create_index_warning
    \/ create_ecommerce_tables_return
    \/ insert_row
    \/ insert_row_error
    \/ insert_sample_data_return
    \/ create_custom_table
    \/ create_custom_table_error
    \/ execute_sql_query
    \/ execute_sql_query_error
    \/ lambda_return
    \/ Return

SpecSchema == Init /\ [][NextSchema]_vars

\* C14: a Lambda handler that has ended has returned, never raised, with
\* statusCode 400, 200 or 500; 400 exactly when a required field of the event
\* is missing or empty, and then without any call to the provider or the
\* database; otherwise 200 exactly when the operation underneath reported
\* success, 500 when it reported failure or raised.
C14_StatusCodes ==
    (op.name \in Handlers /\ pc = "done") =>
       /\ result.status = "returned"
       /\ result.value.statusCode \in {400, 200, 500}
       /\ result.value.statusCode = 400 <=> FieldMissing
       /\ FieldMissing => log = <<>>
       /\ ~FieldMissing => (result.value.statusCode = 200 <=> fr.underlying = "success")

\* C15: in create_ecommerce_tables the k-th CREATE TABLE is that of the k-th
\* table of users, categories, products, addresses, shopping_carts,
\* cart_items, orders, order_items, reviews; when the CREATE of a table is
\* attempted, that of every other table it references was attempted before;
\* PostgreSQL turns a CREATE down for a missing table only after the CREATE of
\* that table failed.
TableAttempts == {i \in 1..Len(log) : log[i].fn = "create_ecommerce_tables"
                                       /\ log[i].call = "CREATE TABLE"}
AttemptedBefore(j, t) == \E i \in TableAttempts : i < j /\ log[i].sname = t
C15_ForeignKeyOrder ==
    (Last > 0 /\ Last \in TableAttempts) =>
       LET t == log[Last].sname
       IN /\ t = <<"users", "categories", "products", "addresses", "shopping_carts",
                   "cart_items", "orders", "order_items", "reviews">>[
                      Cardinality(TableAttempts)]
          /\ \A r \in References(t) \ {t} : AttemptedBefore(Last, r)
          /\ log[Last].err = "Rejected" =>
                \E i \in TableAttempts :
                   i < Last /\ log[i].sname \in References(t) /\ log[i].err /= "none"

C15_Witness ==
    /\ Done("lambda_create_tables")
    /\ Cardinality(TableAttempts) = 9
    /\ \A i \in TableAttempts : log[i].err = "none"
    /\ pg.tables = Range(TableOrder)
    /\ result.value.statusCode = 200

\* ---------------------------------------------------------------- complete_setup.py
\* db_instance_identifier = "mypostgresdb"; instance_identifier = "myinstance"
SetupSleepSeconds == 60

setup_complete_ecommerce_database ==
    /\ now <= MaxStartTime
    /\ pg.rows.categories + 3 <= MaxCategoryRows
    /\ Begin("setup_complete_ecommerce_database", "a", "db", "g_vpcs")

\* result = create_complete_rds_setup(...) has returned; time.sleep(60);
\* rds_ops.create_ecommerce_tables(db_instance_identifier)
sleep_before_tables ==
    /\ pc = "r_return"
    /\ op.name = "setup_complete_ecommerce_database"
    /\ now' = now + SetupSleepSeconds
    /\ log' = Append(log, [fn |-> "setup_complete_ecommerce_database",
                           call |-> "time.sleep", names |-> {}, sname |-> "none",
                           out |-> SetupSleepSeconds, err |-> "none", inv |-> 0])
    /\ pc' = "d_info"
    /\ fr' = [DbFr0 EXCEPT !.event.db_instance_identifier = op.db, !.after = "t_create"]
    /\ UNCHANGED <<ec2, rds, nextId, vpcCreated, faults, op, result, pre, built, pg>>

\* except Exception as e: print; return False
setup_except ==
    /\ pc = "done"
    /\ Propagating
    /\ result' = Returned(FALSE)
    /\ UNCHANGED <<ec2, rds, nextId, vpcCreated, faults, pc, op, fr, log, pre, built,
                   now, pg>>

\* the prints after the if, then return True
setup_return ==
    /\ pc = "s_return"
    /\ pc' = "done"
    /\ result' = Returned(TRUE)
    /\ UNCHANGED <<ec2, rds, nextId, vpcCreated, faults, op, fr, log, pre, built, now, pg>>

NextSetup ==
    \/ setup_complete_ecommerce_database
    \/ describe_vpcs_tagged_none
    \/ describe_vpcs_tagged_first
    \/ describe_subnets_info
    \/ describe_security_groups_info
    \/ describe_db_subnet_groups_info
    \/ subnet_group_not_found_info
    \/ info_error
    \/ create_vpc
    \/ wait_vpc_available
    \/ create_tags
    \/ modify_vpc_attribute
    \/ describe_availability_zones
    \/ create_subnet
    \/ wait_subnet_available
    \/ create_internet_gateway
    \/ attach_internet_gateway
    \/ create_route_table
    \/ associate_route_table
    \/ create_route
    \/ index_error
    \/ allocate_address
    \/ create_nat_gateway
    \/ wait_nat_gateway_available
    \/ create_security_group
    \/ authorize_security_group_ingress
    \/ subnet_group_not_found_create
    \/ create_db_subnet_group
    \/ add_tags_to_resource
    \/ create_db_instance
    \/ reraise
    \/ convert_vpc_info
    \/ sleep_before_tables
    \/ get_db_connection_info
    \/ get_db_credentials
    \/ psycopg2_connect
    \/ select_version
    \/ connection_error
    \/ create_table
    \/ create_table_error
    \/ create_index
    \/ create_index_warning
    \/ create_ecommerce_tables_return
    \/ insert_row
    \/ insert_row_error
    \/ insert_sample_data_return
    \/ setup_except
    \/ setup_return
    \/ Return

\* the script looks for the subnet group of "myinstance" only where it has just
\* found it missing; a second VPC made by the script (MaxVpc > 1) would be
\* needed to find it at that place
SpecSetup == Init /\ [][NextSetup]_vars

\* C16: in setup_complete_ecommerce_database, (a) whenever insert_sample_data
\* has been invoked, create_ecommerce_tables has run its nine CREATE TABLE
\* statements before and none of them failed; (b) every call made for
\* create_ecommerce_tables or insert_sample_data follows the return of
\* create_complete_rds_setup (its create_db_instance succeeded, then the
\* script slept); (c) when a CREATE TABLE failed, no INSERT of sample data is
\* ever sent.
InSetup == op.name = "setup_complete_ecommerce_database"
SchemaCalls ==
    {i \in 1..Len(log) : log[i].fn \in {"get_db_connection_info", "connect_to_database",
                                        "create_ecommerce_tables", "insert_sample_data"}}
SeedInvoked ==
    \/ "after" \in DOMAIN fr /\ fr.after = "i_insert"
    \/ \E i \in 1..Len(log) : log[i].fn = "insert_sample_data"
TableFailed == \E i \in TableAttempts : log[i].err /= "none"
RdsSetupReturned(j) ==
    \E i \in 2..(j - 1) :
       /\ log[i].call = "time.sleep"
       /\ log[i - 1].call = "create_db_instance"
       /\ log[i - 1].err = "none"
C16_SchemaBeforeSeed ==
    InSetup =>
       /\ SeedInvoked =>
             /\ {log[i].sname : i \in TableAttempts} = Range(TableOrder)
             /\ Cardinality(TableAttempts) = Len(TableOrder)
             /\ ~TableFailed
       /\ \A j \in SchemaCalls : RdsSetupReturned(j)
       /\ TableFailed => \A i \in 1..Len(log) : log[i].fn /= "insert_sample_data"
\* the script has returned True after it inserted sample rows
C16_Witness ==
    /\ InSetup
    /\ pc = "done"
    /\ result = Returned(TRUE)
    /\ \E i \in 1..Len(log) : log[i].fn = "insert_sample_data" /\ log[i].err = "none"
    /\ pg.rows.categories > 0

\* ---------------------------------------------------------------- the default VPC
\* C21: cleanup_existing_infrastructure never issues a delete call (delete_vpc
\* or the delete of a NAT gateway, route table, internet gateway, subnet or
\* security group) whose target is a VPC the provider marks as default, or a
\* resource which that VPC held when the operation began, whatever the tags
\* of that VPC.
DeleteCalls ==
    {"delete_nat_gateway", "delete_route_table", "delete_internet_gateway",
     "delete_subnet", "delete_security_group", "delete_vpc"}
DefaultVpcs(e) == {v \in DOMAIN e.vpcs : e.vpcs[v].isDefault}
InDefaultVpc(e) ==
    DefaultVpcs(e) \cup
    UNION {SubnetsIn(e, v) \cup RtbsIn(e, v) \cup IgwsOf(e, v) \cup SgsIn(e, v)
              \cup NatsIn(e, v) : v \in DefaultVpcs(e)}
C21_DefaultVpcKept ==
    (/\ Last > 0
     /\ log[Last].fn = "cleanup_specific_vpc"
     /\ log[Last].call \in DeleteCalls) =>
       log[Last].names \cap InDefaultVpc(pre.ec2) = {}

\* C22: cleanup_specific_vpc never issues delete_route_table for a route table
\* that is the main one of its VPC, and never issues delete_security_group
\* for a group named 'default'; when its delete_vpc succeeds, the main route
\* table and the default group that the VPC held are gone with it.
MainRtbs(e) == {r \in DOMAIN e.rtbs : e.rtbs[r].main}
DefaultSgs(e) == {g \in DOMAIN e.sgs : e.sgs[g].name = "default"}
C22_MainAndDefaultKept ==
    (Last > 0 /\ log[Last].fn = "cleanup_specific_vpc") =>
       /\ log[Last].call = "delete_route_table" =>
             /\ log[Last].names \subseteq DOMAIN pre.ec2.rtbs
             /\ log[Last].names \cap MainRtbs(pre.ec2) = {}
       /\ log[Last].call = "delete_security_group" =>
             /\ log[Last].names \subseteq DOMAIN pre.ec2.sgs
             /\ log[Last].names \cap DefaultSgs(pre.ec2) = {}
       /\ (log[Last].call = "delete_vpc" /\ log[Last].err = "none") =>
             \A v \in log[Last].names :
                /\ RtbsIn(pre.ec2, v) \cap MainRtbs(pre.ec2) \cap DOMAIN ec2.rtbs = {}
                /\ SgsIn(pre.ec2, v) \cap DefaultSgs(pre.ec2) \cap DOMAIN ec2.sgs = {}
\* cleanup_specific_vpc has deleted a VPC that held a main and a custom route
\* table, the default and a custom security group, after it deleted the
\* custom ones
C22_Witness ==
    /\ Last > 0
    /\ log[Last].fn = "cleanup_specific_vpc"
    /\ log[Last].call = "delete_vpc"
    /\ log[Last].err = "none"
    /\ \E v \in log[Last].names :
          /\ RtbsIn(pre.ec2, v) \cap MainRtbs(pre.ec2) /= {}
          /\ SgsIn(pre.ec2, v) \cap DefaultSgs(pre.ec2) /= {}
          /\ \E i \in Before(Last) :
                /\ Ok(i, "delete_route_table", log[i].names)
                /\ log[i].names \subseteq RtbsIn(pre.ec2, v)
          /\ \E i \in Before(Last) :
                /\ Ok(i, "delete_security_group", log[i].names)
                /\ log[i].names \subseteq SgsIn(pre.ec2, v)

\* C23: in create_ecommerce_tables, insert_sample_data, create_custom_table
\* and the query handler, every read of the credentials, every
\* psycopg2.connect and every SQL statement follows a describe_db_instances
\* of the same connect_to_database that reported the status 'available';
\* after any other answer the operation has left connect_to_database by an
\* exception, with no such call after it.
AfterConnectionInfo ==
    {"get_db_credentials_from_secrets", "get_db_credentials_from_env",
     "connect_to_database", "create_ecommerce_tables", "insert_sample_data",
     "create_custom_table", "lambda_execute_query"}
InfoEntries == {i \in 1..Len(log) : log[i].fn = "get_db_connection_info"}
ReportedAvailable(i) == log[i].err = "none" /\ log[i].out = "available"
InsideDatabaseCall ==
    pc \in {"d_credentials", "d_connect", "d_version", "t_create", "t_index", "t_return",
            "i_insert", "i_return", "u_create", "q_execute"}
C23_OnlyWhenAvailable ==
    Last > 0 =>
       /\ log[Last].fn \in AfterConnectionInfo =>
             \E i \in InfoEntries :
                /\ i < Last
                /\ ReportedAvailable(i)
                /\ \A k \in InfoEntries : k <= i
       /\ (Last \in InfoEntries /\ ~ReportedAvailable(Last)) =>
             /\ ~InsideDatabaseCall
             /\ fr.underlying \in {"raised", "failure"}
\* a table was created on an instance reported available, and a run has been
\* turned away for an instance reported in another status
C23_Witness ==
    /\ Last > 0
    /\ Last \in InfoEntries
    /\ log[Last].err = "none"
    /\ log[Last].out = "creating"
    /\ op.name = "lambda_create_tables"
    /\ pc = "done"
    /\ pg.tables /= {}

====
